---- MODULE Spec2Model ----
(***************************************************************************)
(* A model of awe_components/components/utility_functions.py:             *)
(*   - the anaphora resolver (ResolveReference and its backward scan       *)
(*     scanForAnimatePotentialAntecedents, with the tree helpers they use),*)
(*   - the indicator query engine (AWE_Info and its helpers).              *)
(* Token indices are those of the source (0-based): a document is a        *)
(* function from 0..n-1 to token records.  Python lists are sequences.     *)
(* Texts are sequences of one-character strings, so that lower(),          *)
(* capitalize(), re.match and the `in` test on strings are computed.       *)
(***************************************************************************)
EXTENDS Integers, Sequences, FiniteSets, TLC

VARIABLES doc,      \* the parsed document: [0..n-1 -> token record]
          ext,      \* document._: the lists of span records of its extensions
          op,       \* the operation called last ("none" before any call)
          args,     \* the arguments and the environment that call read
          ret       \* what the call returned (or raised) and what it touched

vars == <<doc, ext, op, args, ret>>

(***************************************************************************)
(* Bounds of the model.                                                    *)
(***************************************************************************)
MaxLen == 3         \* tokens in a document of the resolver's specification
MaxProposal == 2    \* antecedents in one proposal of the coreference service
MaxAttr == 2        \* indices in a vwp_speaker / vwp_addressee attribute
MaxScore == 1       \* scores of the probability service are in 0..MaxScore
MaxQueryLen == 3    \* tokens in a document of the query engine's specification
MaxFilters == 2     \* filters in the filter list of a query
MaxTreeLen == 3     \* tokens in a document of the tree utilities
MaxScanLen == 4     \* tokens in a document of the backward scan's specification
MaxLoopLen == 5     \* tokens in a document of the scan loop's specification

(***************************************************************************)
(* Python values.                                                          *)
(***************************************************************************)
\* None where a token (index) is expected
None == -1

UpperCase == <<"A","B","C","D","E","F","G","H","I","J","K","L","M",
               "N","O","P","Q","R","S","T","U","V","W","X","Y","Z">>
LowerCase == <<"a","b","c","d","e","f","g","h","i","j","k","l","m",
               "n","o","p","q","r","s","t","u","v","w","x","y","z">>

\* x in list
Contains(list, x) == \E k \in 1..Len(list) : list[k] = x

\* one character of str.lower() / str.upper()
lowerChar(c) ==
    IF \E k \in 1..26 : UpperCase[k] = c
    THEN LowerCase[CHOOSE k \in 1..26 : UpperCase[k] = c]
    ELSE c

upperChar(c) ==
    IF \E k \in 1..26 : LowerCase[k] = c
    THEN UpperCase[CHOOSE k \in 1..26 : LowerCase[k] = c]
    ELSE c

\* str.lower()
lower(s) == [k \in 1..Len(s) |-> lowerChar(s[k])]

\* str.capitalize(): first character upper-cased, the rest lower-cased
capitalize(s) ==
    [k \in 1..Len(s) |-> IF k = 1 THEN upperChar(s[k]) ELSE lowerChar(s[k])]

\* len(doc)
DocLen(d) == Cardinality(DOMAIN d)

(***************************************************************************)
(* Tokens.  A token record carries what the modelled functions read:       *)
(* text, lemma_, pos_, tag_, dep_, morph (the set of its features, so that *)
(* 'Number=Plur' in str(tok.morph) is a membership test), the animacy      *)
(* attribute tok._.animate and head (the index of tok.head; a root is its  *)
(* own head, as in spaCy).                                                 *)
(***************************************************************************)
\* tok.children: the tokens headed by t, in document order
children(d, t) ==
    LET kids == {j \in DOMAIN d : d[j].head = t /\ j # t}
        Ordered[S \in SUBSET kids] ==
            IF S = {} THEN <<>>
            ELSE LET m == CHOOSE x \in S : \A y \in S : x <= y
                 IN  <<m>> \o Ordered[S \ {m}]
    IN  Ordered[kids]

\* x in h.subtree: h itself or a token below it
RECURSIVE inSubtreeFuel(_, _, _, _)
inSubtreeFuel(d, x, h, fuel) ==
    IF x = h THEN TRUE
    ELSE IF fuel = 0 \/ d[x].head = x THEN FALSE
    ELSE inSubtreeFuel(d, d[x].head, h, fuel - 1)

inSubtree(d, x, h) == inSubtreeFuel(d, x, h, DocLen(d))

isRoot(d, t) ==
    IF d[t].head = t \/ d[t].dep_ = "ROOT" THEN TRUE
    ELSE IF d[t].dep_ = "conj" /\ d[t].head = d[d[t].head].head THEN TRUE
    ELSE FALSE

\* the auxiliaries whose presence among the children makes a verb its own
\* tensed head (lines 1025-1075)
AuxTexts == {
    <<"a","m">>,
    <<"a","r","e">>,
    <<"w","a","s">>,
    <<"w","e","r","e">>,
    <<"d","o">>,
    <<"d","o","e","s">>,
    <<"d","i","d">>,
    <<"h","a","v","e">>,
    <<"h","a","s">>,
    <<"h","a","d">>,
    <<"c","a","n">>,
    <<"c","o","u","l","d">>,
    <<"w","i","l","l">>,
    <<"w","o","u","l","d">>,
    <<"m","a","y">>,
    <<"m","i","g","h","t">>,
    <<"m","u","s","t">>,
    <<"'","d">>,
    <<"'","v","e">>,
    <<"'","l","l">>,
    <<"U+2019","d">>,
    <<"U+2019","v","e">>,
    <<"U+2019","l","l">>}

\* (the character U+2019, the right single quotation mark, is written "U+2019")
\* the clitic 's counts only on a child whose dep_ is aux (lines 1061, 1070)
AuxClitics == {
    <<"'","s">>, <<"U+2019","s">>}

W_be == <<"b","e">>

RECURSIVE getTensedVerbHeadFuel(_, _, _)
getTensedVerbHeadFuel(d, t, fuel) ==
    LET tok == d[t]
        kids == children(d, t)
        up == IF fuel = 0 THEN t
              ELSE getTensedVerbHeadFuel(d, tok.head, fuel - 1)
        kidTags == {d[kids[k]].tag_ : k \in 1..Len(kids)}
    IN  IF isRoot(d, t) THEN t
        ELSE IF lower(tok.text) = W_be /\ "MD" \in kidTags THEN t
        ELSE IF "PunctSide=Ini" \in tok.morph /\ isRoot(d, t)
                /\ t + 1 < DocLen(d)
             THEN getTensedVerbHeadFuel(d, t + 1, fuel - 1)
        ELSE IF tok.tag_ \in {"VBD", "VBZ", "MD"} THEN t
        ELSE IF tok.pos_ = "VERB" THEN
             IF isRoot(d, t) /\ "VerbForm=Inf" \in tok.morph THEN t
             ELSE IF tok.dep_ = "conj"
                     \/ tok.tag_ \in {"VBG", "VBN"}
                     \/ ("TO" \in kidTags /\ ~isRoot(d, t))
                  THEN up
             ELSE IF "Tense=Past" \in tok.morph THEN t
             ELSE IF "Tense=Pres" \in tok.morph THEN t
             ELSE IF \E k \in 1..Len(kids) :
                        \/ lower(d[kids[k]].text) \in AuxTexts
                        \/ /\ lower(d[kids[k]].text) \in AuxClitics
                           /\ d[kids[k]].dep_ = "aux"
                  THEN t
             ELSE up
        ELSE IF isRoot(d, t) THEN None
        ELSE up

getTensedVerbHead(d, t) == getTensedVerbHeadFuel(d, t, DocLen(d))

(***************************************************************************)
(* The environment of the resolver.                                        *)
(*   A proposal of the coreference service (doc._.coref_chains.resolve) is *)
(*   [kind, items]: kind "None" (no proposal), "List" (items are the       *)
(*   proposed tokens' indices, in the service's order) or "Raise" (the     *)
(*   lookup raises).                                                       *)
(*   coref is [present, resolve]: present = FALSE is coref_chains = None.  *)
(*   The probability service is [connect, answers, res1, res2]: connect =  *)
(*   FALSE makes WordseqProbClient() raise, answers = FALSE makes send     *)
(*   raise, res1 / res2 are the scores of the inanimate / animate          *)
(*   placeholder.                                                          *)
(***************************************************************************)
NoProposal == [kind |-> "None", items |-> <<>>]
Proposal(items) == [kind |-> "List", items |-> items]
RaisingLookup == [kind |-> "Raise", items |-> <<>>]

W_who == <<"w","h","o">>
W_whom == <<"w","h","o","m">>
W_whoever == <<"w","h","o","e","v","e","r">>
W_mine == <<"m","i","n","e">>
W_their == <<"t","h","e","i","r">>
W_theirs == <<"t","h","e","i","r","s">>

\* lines 1287-1291
PluralForms == {<<"t","h","e","y">>,
                <<"t","h","e","m">>,
                W_their, W_theirs,
                <<"t","h","e","m","s","e","l","v","e","s">>}

\* list.pop(1)
pop1(list) == <<list[1]>> \o SubSeq(list, 3, Len(list))

\* a slip in lines 1212-1214: the test on the animacy of the item is left out
firstAnimateHit_anyItem(d, items, altAntecedents) ==
    LET hits == {k \in 1..Len(items) : ~Contains(altAntecedents, items[k])}
    IN  IF hits = {} THEN None
        ELSE items[CHOOSE k \in hits : \A j \in hits : k <= j]

\* lines 1212-1214: the first proposed item that is animate and not yet an
\* alternate, or None
firstAnimateHit(d, items, altAntecedents) ==
    LET hits == {k \in 1..Len(items) :
                    d[items[k]].animate /\ ~Contains(altAntecedents, items[k])}
    IN  IF hits = {} THEN None
        ELSE items[CHOOSE k \in hits : \A j \in hits : k <= j]

\* lines 1218-1224: the c-command test; loc is the loop variable of line 1196
\* as the for loop left it
cCommand(d, loc, pos) ==
    /\ inSubtree(d, loc, d[pos].head)
    /\ d[pos].animate
    /\ getTensedVerbHead(d, loc) # getTensedVerbHead(d, pos)
    /\ \/ "Number=Plur" \in d[pos].morph
       \/ lower(d[pos].text) \in {W_who, W_whom, W_whoever}

\* lines 1240-1243: collapse the first two alternates when they have the same
\* capitalized text
collapse(d, altAntecedents) ==
    IF Len(altAntecedents) > 1
       /\ capitalize(d[altAntecedents[1]].text)
          = capitalize(d[altAntecedents[2]].text)
    THEN pop1(altAntecedents)
    ELSE altAntecedents

\* lines 1205-1251: the while loop, from position pos with the accumulator
\* altAntecedents; lookups counts the calls of coref_chains.resolve
RECURSIVE scanLoop(_, _, _, _, _, _)
scanLoop(c, d, coref, pos, altAntecedents, lookups) ==
    IF ~(pos > 0) THEN [ret |-> <<c.tok>>, lookups |-> lookups]
    ELSE
    LET t == d[pos]
        \* lines 1240-1245, then line 1250
        rest(alt, n) ==
            LET alt1 == collapse(d, alt)
            IN  IF Len(alt1) > 1 THEN [ret |-> alt1, lookups |-> n]
                ELSE scanLoop(c, d, coref, pos - 1, alt1, n)
    IN  IF t.pos_ = "PRON" THEN
            LET Resolution == coref.resolve[pos]
                hit == firstAnimateHit(d, Resolution.items, altAntecedents)
            IN  IF Resolution.kind = "Raise"
                THEN \* lines 1246-1249: swallowed, one step to the left
                     scanLoop(c, d, coref, pos - 1, altAntecedents, lookups + 1)
                ELSE IF Resolution.kind = "List" /\ hit # None
                THEN [ret |-> <<hit>>, lookups |-> lookups + 1]
                ELSE IF cCommand(d, c.loc, pos)
                THEN [ret |-> <<pos>>, lookups |-> lookups + 1]
                ELSE rest(altAntecedents, lookups + 1)
        ELSE IF /\ t.pos_ \in {"NOUN", "PROPN"}
                /\ t.animate
                /\ ~Contains(c.antecedentlocs, pos)
                /\ ~Contains(c.blockedLocs, pos)
                /\ lower(t.text) \notin c.blockedLex
        THEN IF ~Contains(altAntecedents, pos)
             THEN IF t.animate /\ "Number=Plur" \in t.morph
                  THEN [ret |-> <<pos>>, lookups |-> lookups]
                  ELSE rest(Append(altAntecedents, pos), lookups)
             ELSE rest(altAntecedents, lookups)
        ELSE rest(altAntecedents, lookups)

\* lines 1187-1251; allowDefault is never read by the source
scanForAnimatePotentialAntecedents(d, coref, loc, antecedentlocs, allowDefault) ==
    LET inanimate(x) == ~d[x].animate
        animate(x) == d[x].animate
        blocked == SelectSeq(antecedentlocs, inanimate)
        c == [tok |-> loc,
              \* line 1196 rebinds loc to each antecedent in turn
              loc |-> IF antecedentlocs = <<>> THEN loc
                      ELSE antecedentlocs[Len(antecedentlocs)],
              antecedentlocs |-> antecedentlocs,
              blockedLocs |-> blocked,
              blockedLex |-> {lower(d[blocked[k]].text) : k \in 1..Len(blocked)}]
    IN  scanLoop(c, d, coref, loc - 1, SelectSeq(antecedentlocs, animate), 0)

(***************************************************************************)
(* ResolveReference (lines 1254-1383).                                     *)
(* A token attribute vwp_speaker / vwp_addressee is [kind, items]: kind    *)
(* "None" or "List" of token indices.                                      *)
(* A request to the probability service is [word, left, right]: the        *)
(* placeholder and the bounds of the two context slices.                   *)
(***************************************************************************)
NoAttr == [kind |-> "None", items |-> <<>>]
Attr(items) == [kind |-> "List", items |-> items]

\* lines 1306-1329: the two requests of one iteration, in the order sent
requests(d, t) ==
    LET start == IF t - 4 < 0 THEN 0 ELSE t - 4
        end == IF (t + 4) + 1 > DocLen(d) THEN DocLen(d) ELSE t + 4
        possessive == lower(d[t].text) \in {W_their, W_theirs}
        req(word) == [word |-> word, left |-> <<start, t>>, right |-> <<t + 1, end>>]
    IN  << req(IF possessive THEN "its" ELSE "things"),
           req(IF possessive THEN "his" ELSE "people") >>

\* n copies of list, concatenated
RECURSIVE repeat(_, _)
repeat(list, n) == IF n = 0 THEN <<>> ELSE list \o repeat(list, n - 1)

\* a slip in lines 1292-1294: the proposal is accepted last token first
acceptProposal_reversed(Resolution) ==
    IF Resolution.kind # "None"
    THEN [k \in 1..Len(Resolution.items) |->
             Resolution.items[Len(Resolution.items) + 1 - k]]
    ELSE <<>>

\* lines 1292-1294: a pronoun that is not they/them/their/theirs/themselves
acceptProposal(Resolution) ==
    IF Resolution.kind # "None" THEN Resolution.items ELSE <<>>

\* lines 1354-1359: the except clause, entered with doclist as the try block
\* left it
degrade(doclist, Resolution) ==
    IF Resolution.kind # "None" THEN doclist \o Resolution.items ELSE doclist

\* a slip in lines 1296-1359: the proposal is taken as it is
pluralBranch_asProposed(d, coref, wspc, t) ==
    [doclist |-> IF coref.resolve[t].kind # "None"
                 THEN coref.resolve[t].items ELSE <<>>,
     sent |-> <<>>, lookups |-> 0]

\* lines 1296-1359: they/them/their/theirs/themselves
\* [doclist, sent, lookups]: the list built, the requests sent to the
\* probability service and the number of further coreference lookups
pluralBranch(d, coref, wspc, t) ==
    LET Resolution == coref.resolve[t]
        items == IF Resolution.kind # "None" THEN Resolution.items ELSE <<>>
        animate(x) == d[x].animate
        anim == \A k \in 1..Len(items) : d[items[k]].animate
        doclist == SelectSeq(items, animate)
        reqs == requests(d, t)
        \* lines 1342-1353: nothing proposed is animate
        fallback == scanForAnimatePotentialAntecedents(d, coref, t, <<>>, TRUE)
        \* lines 1332-1340
        scan == scanForAnimatePotentialAntecedents(d, coref, t, doclist, FALSE)
    IN  IF ~anim /\ doclist # <<>>
        THEN IF ~wspc.connect
             THEN \* wspc is None: wspc.send raises before anything is sent
                  [doclist |-> degrade(doclist, Resolution),
                   sent |-> <<>>, lookups |-> 0]
             ELSE IF ~wspc.answers
             THEN [doclist |-> degrade(doclist, Resolution),
                   sent |-> <<reqs[1]>>, lookups |-> 0]
             ELSE IF wspc.res2 > wspc.res1
             THEN [doclist |-> scan.ret, sent |-> reqs, lookups |-> scan.lookups]
             ELSE \* the loop runs once for each item of doclist
                  [doclist |-> doclist, sent |-> repeat(reqs, Len(doclist)),
                   lookups |-> 0]
        ELSE IF Len(doclist) = 0
        THEN [doclist |-> fallback.ret, sent |-> <<>>, lookups |-> fallback.lookups]
        ELSE [doclist |-> doclist, sent |-> <<>>, lookups |-> 0]

\* a slip in lines 1361-1369: the test on the lemma 'mine' is left out
speakerOverride_keepsMine(d, t, vwp_speaker) ==
    LET keep(item) == d[item].pos_ # "PRON"
        doclist == SelectSeq(vwp_speaker.items, keep)
    IN  IF Len(doclist) = 0 THEN <<t>> ELSE doclist

\* lines 1361-1369
speakerOverride(d, t, vwp_speaker) ==
    LET keep(item) == d[item].pos_ # "PRON" /\ d[item].lemma_ # W_mine
        doclist == SelectSeq(vwp_speaker.items, keep)
    IN  IF Len(doclist) = 0 THEN <<t>> ELSE doclist

\* lines 1371-1378
addresseeOverride(d, t, vwp_addressee) ==
    LET keep(item) == d[item].pos_ # "PRON"
        doclist == SelectSeq(vwp_addressee.items, keep)
    IN  IF Len(doclist) = 0 THEN <<t>> ELSE doclist

\* a slip in lines 1380-1383: the list is returned as built
orSelf_asBuilt(doclist, t) == doclist

\* lines 1380-1383
orSelf(doclist, t) == IF Len(doclist) > 0 THEN doclist ELSE <<t>>

\* a slip in lines 1361-1383: the overrides apply only when nothing was
\* resolved
override_lastResort(d, t, doclist, vwp_speaker, vwp_addressee) ==
    IF Len(doclist) > 0 THEN doclist
    ELSE IF vwp_speaker.kind # "None"
    THEN speakerOverride(d, t, vwp_speaker)
    ELSE IF vwp_addressee.kind # "None"
    THEN addresseeOverride(d, t, vwp_addressee)
    ELSE <<t>>

\* lines 1361-1383: the overrides, then the list built or [tok.i]
override(d, t, doclist, vwp_speaker, vwp_addressee) ==
    IF vwp_speaker.kind # "None"
    THEN speakerOverride(d, t, vwp_speaker)
    ELSE IF vwp_addressee.kind # "None"
    THEN addresseeOverride(d, t, vwp_addressee)
    ELSE orSelf(doclist, t)

\* a slip in lines 1256-1259: the test comes after the client is set up
corefOff_late(t) == [ret |-> <<t>>, connects |-> 1, lookups |-> 0, sent |-> <<>>]

\* lines 1256-1259: coreference is turned off
corefOff(t) == [ret |-> <<t>>, connects |-> 0, lookups |-> 0, sent |-> <<>>]

\* lines 1254-1383.  [ret, connects, lookups, sent]: the list returned, the
\* number of WordseqProbClient() constructions, the number of calls of
\* coref_chains.resolve and the requests sent to the probability service.
\* The lookup of line 1284 is taken to return.
ResolveReference(d, coref, wspc, t, vwp_speaker, vwp_addressee) ==
    IF ~coref.present
    THEN corefOff(t)
    ELSE
    LET Resolution == coref.resolve[t]
        plural == pluralBranch(d, coref, wspc, t)
        isPlural == lower(d[t].text) \in PluralForms
        doclist == IF ~isPlural THEN acceptProposal(Resolution)
                   ELSE plural.doclist
    IN  [ret |-> override(d, t, doclist, vwp_speaker, vwp_addressee),
         connects |-> 1,
         lookups |-> 1 + (IF isPlural THEN plural.lookups ELSE 0),
         sent |-> IF isPlural THEN plural.sent ELSE <<>>]

(***************************************************************************)
(* The documents of the resolver's specification: every sequence of at     *)
(* most MaxLen words of Lexicon, parsed.  The parser is outside the        *)
(* program; here the first verb of a document is its root, every other     *)
(* token depends on the nearest verb before it (on the first verb when     *)
(* none precedes it), and the tokens of a document with no verb are roots. *)
(***************************************************************************)
Word(text, lemma, pos, tag, dep, morph, animate) ==
    [text |-> text, ws |-> <<" ">>, lemma_ |-> lemma, pos_ |-> pos,
     tag_ |-> tag, dep_ |-> dep, morph |-> morph, animate |-> animate]

Lexicon == {
    Word(<<"T","h","e","y">>, <<"t","h","e","y">>, "PRON", "PRP", "nsubj", {"Number=Plur"}, TRUE),
    Word(<<"S","h","e">>, <<"s","h","e">>, "PRON", "PRP", "nsubj", {"Number=Sing"}, TRUE),
    Word(<<"M","a","r","i","a">>, <<"M","a","r","i","a">>, "PROPN", "NNP", "nsubj", {"Number=Sing"}, TRUE),
    Word(<<"M","A","R","I","A">>, <<"M","a","r","i","a">>, "PROPN", "NNP", "dobj", {"Number=Sing"}, TRUE),
    Word(<<"k","e","y","s">>, <<"k","e","y">>, "NOUN", "NNS", "dobj", {"Number=Plur"}, FALSE),
    Word(<<"p","e","o","p","l","e">>, <<"p","e","o","p","l","e">>, "NOUN", "NNS", "dobj", {"Number=Plur"}, TRUE),
    Word(<<"m","i","n","e">>, W_mine, "NOUN", "NN", "dobj", {"Number=Sing"}, FALSE),
    Word(<<"s","a","w">>, <<"s","e","e">>, "VERB", "VBD", "ccomp", {"Tense=Past"}, FALSE) }

\* the token at index i: the word, its head, and dep_ ROOT on a root
Token(word, i, head) ==
    [text |-> word.text, ws |-> word.ws, lemma_ |-> word.lemma_,
     pos_ |-> word.pos_, tag_ |-> word.tag_,
     dep_ |-> IF head = i THEN "ROOT" ELSE word.dep_,
     morph |-> word.morph, animate |-> word.animate, head |-> head]

headOf(words, i) ==
    LET verbs == {j \in DOMAIN words : words[j].pos_ = "VERB"}
        before == {j \in verbs : j < i}
        first == CHOOSE j \in verbs : \A k \in verbs : j <= k
    IN  IF verbs = {} \/ i = first THEN i
        ELSE IF before = {} THEN first
        ELSE CHOOSE j \in before : \A k \in before : k <= j

ParsedDocs(n) ==
    { [i \in 0..(n - 1) |-> Token(words[i], i, headOf(words, i))] :
        words \in [0..(n - 1) -> Lexicon] }

\* the lists of at most n distinct indices drawn from S
RECURSIVE distinctLists(_, _)
distinctLists(S, n) ==
    IF n = 0 THEN {<<>>}
    ELSE LET shorter == distinctLists(S, n - 1)
         IN  shorter \cup
             { Append(l, x) : <<l, x>> \in
                 { lx \in shorter \X S : Len(lx[1]) = n - 1
                                          /\ ~Contains(lx[1], lx[2]) } }

\* what the coreference service may answer for the token t: nothing, or a
\* list of at most MaxProposal other tokens
Proposals(d, t) ==
    {NoProposal} \cup
    { Proposal(l) : l \in distinctLists(DOMAIN d \ {t}, MaxProposal) }

\* coref_chains with the answer p for the resolved token t and the answers
\* g for the tokens of DOMAIN g; the answers no call reads are NoProposal
Chains(d, t, p, g) ==
    [present |-> TRUE,
     resolve |-> [i \in DOMAIN d |-> IF i = t THEN p
                                     ELSE IF i \in DOMAIN g THEN g[i]
                                     ELSE NoProposal]]

\* the pronouns the backward scan of t can reach (0 < pos < t)
Scanned(d, t) ==
    IF lower(d[t].text) \in PluralForms
    THEN {i \in DOMAIN d : 0 < i /\ i < t /\ d[i].pos_ = "PRON"}
    ELSE {}

\* coref_chains when present: any answer for t, and for each scanned
\* pronoun any answer or a lookup that raises
CorefChains(d, t) ==
    { Chains(d, t, pg[1], pg[2]) :
        pg \in Proposals(d, t) \X
               [Scanned(d, t) -> UNION {Proposals(d, i) : i \in Scanned(d, t)}
                                 \cup {RaisingLookup}] }

NoCoref(d) == [present |-> FALSE, resolve |-> [i \in DOMAIN d |-> NoProposal]]

\* the probability service: unreachable, connected but failing, or scoring
WordseqProbClients ==
    { [connect |-> FALSE, answers |-> FALSE, res1 |-> 0, res2 |-> 0],
      [connect |-> TRUE, answers |-> FALSE, res1 |-> 0, res2 |-> 0] }
    \cup { [connect |-> TRUE, answers |-> TRUE, res1 |-> a, res2 |-> b] :
             a \in 0..MaxScore, b \in 0..MaxScore }

\* the values of a vwp_speaker / vwp_addressee attribute
Attrs(d) ==
    {NoAttr} \cup { Attr(l) : l \in distinctLists(DOMAIN d, MaxAttr) }

(***************************************************************************)
(* The indicator query engine (AWE_Info, lines 2231-2744).                 *)
(*                                                                         *)
(* Python strings are sequences of one-character strings.  A Python value  *)
(* (a record's 'value') is [type, b, n, s, l]: type is the Python type's   *)
(* name and the field of that type holds the value (b for bool, n for int, *)
(* s for str, l for list).  A float is [type |-> "float"] with s the       *)
(* functions applied ("log", "sqrt"), outermost first, to the number n:    *)
(* the model does not compute logarithms and roots.                        *)
(***************************************************************************)
\* the string literals of the module, by name; le_indented is the fifth
\* comparison operator of line 2378, '    <='
S == [
    NOUN |-> <<"N","O","U","N">>,
    NUM |-> <<"N","U","M">>,
    bad_indicator |-> <<"b","a","d"," ","i","n","d","i","c","a","t","o","r">>,
    nosuch |-> <<"n","o","s","u","c","h">>,
    bang |-> <<"!">>,
    Sentence |-> <<"S","e","n","t","e","n","c","e">>,
    Doc |-> <<"D","o","c">>,
    False |-> <<"F","a","l","s","e">>,
    Token |-> <<"T","o","k","e","n">>,
    True |-> <<"T","r","u","e">>,
    animate |-> <<"a","n","i","m","a","t","e">>,
    counts |-> <<"c","o","u","n","t","s">>,
    dep_ |-> <<"d","e","p","_">>,
    en |-> <<"e","n">>,
    ent_id |-> <<"e","n","t","_","i","d">>,
    ent_iob_ |-> <<"e","n","t","_","i","o","b","_">>,
    ent_type_ |-> <<"e","n","t","_","t","y","p","e","_">>,
    governing_subject |-> <<"g","o","v","e","r","n","i","n","g","_","s","u","b","j","e","c","t">>,
    idx |-> <<"i","d","x">>,
    is_alpha |-> <<"i","s","_","a","l","p","h","a">>,
    is_ascii |-> <<"i","s","_","a","s","c","i","i">>,
    is_bracket |-> <<"i","s","_","b","r","a","c","k","e","t">>,
    is_currency |-> <<"i","s","_","c","u","r","r","e","n","c","y">>,
    is_digit |-> <<"i","s","_","d","i","g","i","t">>,
    is_left_punct |-> <<"i","s","_","l","e","f","t","_","p","u","n","c","t">>,
    is_lower |-> <<"i","s","_","l","o","w","e","r">>,
    is_oov |-> <<"i","s","_","o","o","v">>,
    is_punct |-> <<"i","s","_","p","u","n","c","t">>,
    is_quote |-> <<"i","s","_","q","u","o","t","e">>,
    is_right_punct |-> <<"i","s","_","r","i","g","h","t","_","p","u","n","c","t">>,
    is_sent_end |-> <<"i","s","_","s","e","n","t","_","e","n","d">>,
    is_sent_start |-> <<"i","s","_","s","e","n","t","_","s","t","a","r","t">>,
    is_space |-> <<"i","s","_","s","p","a","c","e">>,
    is_stop |-> <<"i","s","_","s","t","o","p">>,
    is_title |-> <<"i","s","_","t","i","t","l","e">>,
    is_upper |-> <<"i","s","_","u","p","p","e","r">>,
    lang_ |-> <<"l","a","n","g","_">>,
    lemma_ |-> <<"l","e","m","m","a","_">>,
    len |-> <<"l","e","n">>,
    like_email |-> <<"l","i","k","e","_","e","m","a","i","l">>,
    like_num |-> <<"l","i","k","e","_","n","u","m">>,
    like_url |-> <<"l","i","k","e","_","u","r","l">>,
    log |-> <<"l","o","g">>,
    lower_ |-> <<"l","o","w","e","r","_">>,
    main_ideas |-> <<"m","a","i","n","_","i","d","e","a","s">>,
    max |-> <<"m","a","x">>,
    mean |-> <<"m","e","a","n">>,
    median |-> <<"m","e","d","i","a","n">>,
    min |-> <<"m","i","n">>,
    norm_ |-> <<"n","o","r","m","_">>,
    not |-> <<"n","o","t">>,
    orth_ |-> <<"o","r","t","h","_">>,
    percent |-> <<"p","e","r","c","e","n","t">>,
    pos_ |-> <<"p","o","s","_">>,
    proportion |-> <<"p","r","o","p","o","r","t","i","o","n">>,
    sentence |-> <<"s","e","n","t","e","n","c","e">>,
    sents |-> <<"s","e","n","t","s">>,
    sqrt |-> <<"s","q","r","t">>,
    stdev |-> <<"s","t","d","e","v">>,
    tag_ |-> <<"t","a","g","_">>,
    text |-> <<"t","e","x","t">>,
    text_with_ws |-> <<"t","e","x","t","_","w","i","t","h","_","w","s">>,
    tokenlen |-> <<"t","o","k","e","n","l","e","n">>,
    total |-> <<"t","o","t","a","l">>,
    totaluniq |-> <<"t","o","t","a","l","u","n","i","q">>,
    uniq |-> <<"u","n","i","q">>,
    vwp_speaker |-> <<"v","w","p","_","s","p","e","a","k","e","r">>,
    empty |-> <<>>,
    eq |-> <<"=","=">>,
    gt |-> <<">">>,
    lt |-> <<"<">>,
    ge |-> <<">","=">>,
    le |-> <<"<","=">>,
    le_indented |-> <<" "," "," "," ","<","=">>,
    text_ |-> <<"t","e","x","t","_">>,
    len_ |-> <<"l","e","n","_">>,
    clen_ |-> <<"c","l","e","n","_">>,
    tlen_ |-> <<"t","l","e","n","_">>,
    log_ |-> <<"l","o","g","_">>,
    sqrt_ |-> <<"s","q","r","t","_">>,
    delimiter_ |-> <<"d","e","l","i","m","i","t","e","r","_">> ]

\* lines 33-66
built_in_attributes == {
    <<"t","e","x","t">>,
    <<"t","e","x","t","_","w","i","t","h","_","w","s">>,
    <<"o","r","t","h","_">>,
    <<"e","n","t","_","t","y","p","e","_">>,
    <<"e","n","t","_","i","o","b","_">>,
    <<"e","n","t","_","i","d">>,
    <<"l","e","m","m","a","_">>,
    <<"n","o","r","m","_">>,
    <<"l","o","w","e","r","_">>,
    <<"i","s","_","a","l","p","h","a">>,
    <<"i","s","_","a","s","c","i","i">>,
    <<"i","s","_","d","i","g","i","t">>,
    <<"i","s","_","l","o","w","e","r">>,
    <<"i","s","_","u","p","p","e","r">>,
    <<"i","s","_","t","i","t","l","e">>,
    <<"i","s","_","p","u","n","c","t">>,
    <<"i","s","_","l","e","f","t","_","p","u","n","c","t">>,
    <<"i","s","_","r","i","g","h","t","_","p","u","n","c","t">>,
    <<"i","s","_","s","e","n","t","_","s","t","a","r","t">>,
    <<"i","s","_","s","e","n","t","_","e","n","d">>,
    <<"i","s","_","s","p","a","c","e">>,
    <<"i","s","_","b","r","a","c","k","e","t">>,
    <<"i","s","_","q","u","o","t","e">>,
    <<"i","s","_","c","u","r","r","e","n","c","y">>,
    <<"l","i","k","e","_","u","r","l">>,
    <<"l","i","k","e","_","n","u","m">>,
    <<"l","i","k","e","_","e","m","a","i","l">>,
    <<"i","s","_","o","o","v">>,
    <<"i","s","_","s","t","o","p">>,
    <<"p","o","s","_">>,
    <<"t","a","g","_">>,
    <<"d","e","p","_">>,
    <<"l","a","n","g","_">>,
    <<"i","d","x">>}

\* lines 68-78
built_in_string_functions == {
    <<"t","e","x","t">>,
    <<"t","e","x","t","_","w","i","t","h","_","w","s">>,
    <<"o","r","t","h","_">>,
    <<"e","n","t","_","t","y","p","e","_">>,
    <<"l","e","m","m","a","_">>,
    <<"n","o","r","m","_">>,
    <<"l","o","w","e","r","_">>,
    <<"p","o","s","_">>,
    <<"t","a","g","_">>,
    <<"d","e","p","_">>,
    <<"l","a","n","g","_">>}

\* lines 80-99
built_in_flags == {
    <<"i","s","_","a","l","p","h","a">>,
    <<"i","s","_","a","s","c","i","i">>,
    <<"i","s","_","d","i","g","i","t">>,
    <<"i","s","_","l","o","w","e","r">>,
    <<"i","s","_","u","p","p","e","r">>,
    <<"i","s","_","t","i","t","l","e">>,
    <<"i","s","_","p","u","n","c","t">>,
    <<"i","s","_","l","e","f","t","_","p","u","n","c","t">>,
    <<"i","s","_","r","i","g","h","t","_","p","u","n","c","t">>,
    <<"i","s","_","s","e","n","t","_","s","t","a","r","t">>,
    <<"i","s","_","s","e","n","t","_","e","n","d">>,
    <<"i","s","_","s","p","a","c","e">>,
    <<"i","s","_","b","r","a","c","k","e","t">>,
    <<"i","s","_","q","u","o","t","e">>,
    <<"i","s","_","c","u","r","r","e","n","c","y">>,
    <<"l","i","k","e","_","u","r","l">>,
    <<"l","i","k","e","_","n","u","m">>,
    <<"l","i","k","e","_","e","m","a","i","l">>,
    <<"i","s","_","o","o","v">>,
    <<"i","s","_","s","t","o","p">>}

\* lines 101-120
docspan_extensions == {
    <<"s","e","n","t","e","n","c","e","_","t","y","p","e","s">>,
    <<"t","r","a","n","s","i","t","i","o","n","_","d","i","s","t","a","n","c","e","s">>,
    <<"i","n","t","e","r","s","e","n","t","e","n","c","e","_","c","o","h","e","s","i","o","n","s">>,
    <<"s","l","i","d","i","n","g","_","w","i","n","d","o","w","_","c","o","h","e","s","i","o","n","s">>,
    <<"c","o","r","e","f","C","h","a","i","n","I","n","f","o">>,
    <<"s","e","n","t","e","n","c","e","T","h","e","m","e","s">>,
    <<"t","r","a","n","s","i","t","i","o","n","s">>,
    <<"s","y","n","t","a","c","t","i","c","D","e","p","t","h","s","O","f","T","h","e","m","e","s">>,
    <<"s","y","n","t","a","c","t","i","c","D","e","p","t","h","s","O","f","R","h","e","m","e","s">>,
    <<"m","a","i","n","_","c","l","u","s","t","e","r","_","s","p","a","n","s">>,
    <<"v","w","p","_","s","t","a","t","e","m","e","n","t","s","_","o","f","_","o","p","i","n","i","o","n">>,
    <<"v","w","p","_","s","t","a","t","e","m","e","n","t","s","_","o","f","_","f","a","c","t">>,
    <<"d","i","r","e","c","t","_","s","p","e","e","c","h","_","s","p","a","n","s">>,
    <<"v","w","p","_","s","o","c","i","a","l","_","a","w","a","r","e","n","e","s","s">>,
    <<"v","w","p","_","p","r","o","p","o","s","i","t","i","o","n","a","l","_","a","t","t","i","t","u","d","e","s">>,
    <<"m","a","i","n","_","i","d","e","a","s">>,
    <<"s","u","p","p","o","r","t","i","n","g","_","i","d","e","a","s">>,
    <<"s","u","p","p","o","r","t","i","n","g","_","d","e","t","a","i","l","s">>,
    <<"a","l","l","_","c","l","u","s","t","e","r","_","i","n","f","o">>}

\* the token extensions registered by the pipeline (Token.has_extension)
token_extensions == {S.animate, S.governing_subject, S.vwp_speaker}

V_None == [type |-> "NoneType", b |-> FALSE, n |-> 0, s |-> <<>>, l |-> <<>>]
V_bool(b) == [type |-> "bool", b |-> b, n |-> 0, s |-> <<>>, l |-> <<>>]
V_int(n) == [type |-> "int", b |-> FALSE, n |-> n, s |-> <<>>, l |-> <<>>]
V_str(s) == [type |-> "str", b |-> FALSE, n |-> 0, s |-> s, l |-> <<>>]
V_list(l) == [type |-> "list", b |-> FALSE, n |-> 0, s |-> <<>>, l |-> l]
V_float(fns, n) == [type |-> "float", b |-> FALSE, n |-> n, s |-> fns, l |-> <<>>]

Digits == <<"0","1","2","3","4","5","6","7","8","9">>

isUpperChar(c) == \E k \in 1..26 : UpperCase[k] = c
isLowerChar(c) == \E k \in 1..26 : LowerCase[k] = c
isAlphaChar(c) == isUpperChar(c) \/ isLowerChar(c)
isDigitChar(c) == \E k \in 1..10 : Digits[k] = c

\* re.match('[A-Za-z0-9_]+', s): the pattern is matched at the start of s
\* and need not reach its end
reMatchWord(s) ==
    Len(s) > 0 /\ (isAlphaChar(s[1]) \/ isDigitChar(s[1]) \/ s[1] = "_")

\* str.startswith
startsWith(s, prefix) ==
    Len(s) >= Len(prefix) /\ SubSeq(s, 1, Len(prefix)) = prefix

\* sub in s, for strings
isSubstring(sub, s) ==
    \E k \in 0..(Len(s) - Len(sub)) : SubSeq(s, k + 1, k + Len(sub)) = sub

\* int(s) for a string of decimal digits
RECURSIVE natOfStr(_)
natOfStr(s) ==
    IF s = <<>> THEN 0
    ELSE 10 * natOfStr(SubSeq(s, 1, Len(s) - 1))
         + ((CHOOSE k \in 1..10 : Digits[k] = s[Len(s)]) - 1)

isNumeral(s) == Len(s) > 0 /\ \A k \in 1..Len(s) : isDigitChar(s[k])

\* the Python string of a tag kept as a TLA+ string in the token record
pyStr(tag) ==
    CASE tag = "PRON" -> <<"P","R","O","N">>
      [] tag = "NOUN" -> <<"N","O","U","N">>
      [] tag = "PROPN" -> <<"P","R","O","P","N">>
      [] tag = "VERB" -> <<"V","E","R","B">>
      [] tag = "PUNCT" -> <<"P","U","N","C","T">>
      [] tag = "SPACE" -> <<"S","P","A","C","E">>
      [] tag = "NUM" -> <<"N","U","M">>
      [] tag = "DET" -> <<"D","E","T">>
      [] tag = "PRP" -> <<"P","R","P">>
      [] tag = "NNP" -> <<"N","N","P">>
      [] tag = "NNS" -> <<"N","N","S">>
      [] tag = "NN" -> <<"N","N">>
      [] tag = "VBD" -> <<"V","B","D">>
      [] tag = "CD" -> <<"C","D">>
      [] tag = "DT" -> <<"D","T">>
      [] tag = "." -> <<".">>
      [] tag = "_SP" -> <<"_","S","P">>
      [] tag = "ROOT" -> <<"R","O","O","T">>
      [] tag = "nsubj" -> <<"n","s","u","b","j">>
      [] tag = "dobj" -> <<"d","o","b","j">>
      [] tag = "ccomp" -> <<"c","c","o","m","p">>
      [] tag = "punct" -> <<"p","u","n","c","t">>
      [] tag = "dep" -> <<"d","e","p">>
      [] tag = "det" -> <<"d","e","t">>
      [] tag = "nummod" -> <<"n","u","m","m","o","d">>

StopWords == {<<"t","h","e">>, <<"t","h","e","y">>, <<"s","h","e">>, <<"m","i","n","e">>}

(***************************************************************************)
(* Token attributes.  A token's flags are computed from its text as the    *)
(* library computes them; idx is the offset of the token in the text.      *)
(***************************************************************************)
RECURSIVE idx(_, _)
idx(d, i) ==
    IF i = 0 THEN 0
    ELSE idx(d, i - 1) + Len(d[i - 1].text) + Len(d[i - 1].ws)

text_with_ws(d, i) == d[i].text \o d[i].ws

\* the sentence segmentation of the parse: a sentence starts at token 0 and
\* after a full stop
is_sent_start(d, i) == i = 0 \/ d[i - 1].text = <<".">>

tokenFlag(d, i, name) ==
    LET s == d[i].text
        all(P(_)) == Len(s) > 0 /\ \A k \in 1..Len(s) : P(s[k])
        some(P(_)) == \E k \in 1..Len(s) : P(s[k])
        isSpaceChar(c) == c \in {" ", "\n", "\t"}
        isPunctChar(c) == c \in {".", ",", ";", ":", "!", "?", "-", "'", "(", ")"}
        \* str.istitle for a one-word text
        isTitle == /\ Len(s) > 0
                   /\ isUpperChar(s[1])
                   /\ \A k \in 2..Len(s) : ~isUpperChar(s[k])
        is_sent_end == i = DocLen(d) - 1 \/ s = <<".">>
    IN  CASE name = S.is_alpha -> all(isAlphaChar)
          [] name = S.is_ascii -> TRUE
          [] name = S.is_digit -> all(isDigitChar)
          [] name = S.is_lower -> some(isLowerChar) /\ ~some(isUpperChar)
          [] name = S.is_upper -> some(isUpperChar) /\ ~some(isLowerChar)
          [] name = S.is_title -> isTitle
          [] name = S.is_punct -> all(isPunctChar)
          [] name = S.is_left_punct -> s = <<"(">>
          [] name = S.is_right_punct -> s = <<")">>
          [] name = S.is_sent_start -> is_sent_start(d, i)
          [] name = S.is_sent_end -> is_sent_end
          [] name = S.is_space -> all(isSpaceChar)
          [] name = S.is_bracket -> s \in {<<"(">>, <<")">>}
          [] name = S.is_quote -> s \in {<<"'">>}
          [] name = S.is_currency -> FALSE
          [] name = S.like_url -> FALSE
          [] name = S.like_num -> all(isDigitChar)
          [] name = S.like_email -> FALSE
          [] name = S.is_oov -> FALSE
          [] name = S.is_stop -> lower(s) \in StopWords

\* eval('token.' + name) for a name of built_in_attributes
tokenAttr(d, i, name) ==
    CASE name \in built_in_flags -> V_bool(tokenFlag(d, i, name))
      [] name \in {S.text, S.orth_} -> V_str(d[i].text)
      [] name = S.text_with_ws -> V_str(text_with_ws(d, i))
      [] name = S.ent_type_ -> V_str(<<>>)
      [] name = S.ent_iob_ -> V_str(<<"O">>)
      [] name = S.ent_id -> V_int(0)
      [] name = S.lemma_ -> V_str(d[i].lemma_)
      [] name \in {S.norm_, S.lower_} -> V_str(lower(d[i].text))
      [] name = S.pos_ -> V_str(pyStr(d[i].pos_))
      [] name = S.tag_ -> V_str(pyStr(d[i].tag_))
      [] name = S.dep_ -> V_str(pyStr(d[i].dep_))
      [] name = S.lang_ -> V_str(S.en)
      [] name = S.idx -> V_int(idx(d, i))

\* token.has_extension(name)
has_extension(name) == name \in token_extensions

\* eval('token._.' + name) for a registered extension: animate is a flag,
\* governing_subject the index of a token or None, vwp_speaker a list of
\* indices or None
tokenExt(d, i, name) ==
    CASE name = S.animate -> V_bool(d[i].animate)
      [] name = S.governing_subject ->
            IF d[i].head = i THEN V_None ELSE V_int(d[i].head)
      [] name = S.vwp_speaker -> V_None

(***************************************************************************)
(* Records.  A call that raises returns its fault, the exception's text    *)
(* up to the name it quotes; "" is a normal return.                        *)
(***************************************************************************)
NoFault == ""

\* hdoc[left:right+1].text: the tokens with their whitespace, but for the
\* whitespace that follows the last one
RECURSIVE spanText(_, _, _)
spanText(d, left, right) ==
    IF left > right THEN <<>>
    ELSE IF left = right THEN d[right].text
    ELSE text_with_ws(d, left) \o spanText(d, left + 1, right)

newSpanEntry(name, left, right, hdoc, value) ==
    IF left \notin DOMAIN hdoc \/ right \notin DOMAIN hdoc
    THEN [fault |-> "IndexError", entry |-> <<>>]
    ELSE [fault |-> NoFault,
          entry |-> [name |-> name,
                     offset |-> idx(hdoc, left),
                     startToken |-> left,
                     endToken |-> right,
                     length |-> idx(hdoc, right)
                                + Len(text_with_ws(hdoc, right))
                                - idx(hdoc, left),
                     value |-> value,
                     text |-> spanText(hdoc, left, right)]]

\* the entry is made, and its fields but value are set, before the name is
\* looked at
newTokenEntry(name, d, token, value) ==
    LET entry == [text |-> text_with_ws(d, token),
                  offset |-> idx(d, token),
                  tokenIdx |-> token,
                  length |-> Len(text_with_ws(d, token)),
                  name |-> name,
                  value |-> V_None]
    IN  IF name \in built_in_attributes
        THEN [fault |-> NoFault,
              entry |-> [entry EXCEPT !.value = tokenAttr(d, token, name)]]
        ELSE IF has_extension(name)
        THEN [fault |-> NoFault,
              entry |-> [entry EXCEPT !.value = tokenExt(d, token, name)]]
        ELSE [fault |-> "Invalid indicator", entry |-> entry]

(***************************************************************************)
(* Filters.  A filter is <<function, returnValues>>, both strings.         *)
(***************************************************************************)
\* truth of a Python value
truthy(v) ==
    CASE v.type = "NoneType" -> FALSE
      [] v.type = "bool" -> v.b
      [] v.type = "int" -> v.n # 0
      [] v.type = "str" -> v.s # <<>>
      [] v.type = "list" -> v.l # <<>>
      [] v.type = "float" -> TRUE

\* the operator that the text of a comparison applies
compareNat(function, a, b) ==
    CASE function = S.eq -> a = b
      [] function = S.gt -> a > b
      [] function = S.lt -> a < b
      [] function = S.ge -> a >= b
      [] function = S.le_indented -> a <= b

\* eval(entry['value'] + function + returnValue), lines 2381-2383: the
\* value is joined to two strings, and the text is evaluated as code.  An
\* int cannot be joined to a string; the text of two numerals and an
\* operator is a comparison of numbers; in any other text a word is the
\* name of an undefined variable, and other characters are no expression.
evalComparison(value, function, returnValue) ==
    IF value.type # "str" THEN [fault |-> "TypeError", b |-> FALSE]
    ELSE IF isNumeral(value.s) /\ isNumeral(returnValue)
    THEN [fault |-> NoFault,
          b |-> compareNat(function, natOfStr(value.s),
                           natOfStr(returnValue))]
    ELSE [fault |-> "NameError or SyntaxError", b |-> FALSE]

\* v in [True, False]: equality with True or False, which holds of 1 and 0
inTrueFalse(v) ==
    v.type = "bool" \/ (v.type = "int" /\ v.n \in {0, 1})

\* one pass of the body of the loop over returnValues, lines 2371-2442.
\* do is "return" (of the value b), "raise" (of fault) or "next";
\* filterEntry is the local variable after the pass.
filterStep(d, token, entry, function, returnValue, filterEntry) ==
    LET value == entry.value
        Return(b) == [do |-> "return", b |-> b, fault |-> NoFault,
                      filterEntry |-> filterEntry]
        Raise(f) == [do |-> "raise", b |-> FALSE, fault |-> f,
                     filterEntry |-> filterEntry]
        Go(fe) == [do |-> "next", b |-> FALSE, fault |-> NoFault,
                   filterEntry |-> fe]
    IN  IF /\ function \in {S.eq, S.gt, S.lt, S.ge, S.le_indented}
           /\ value.type \in {"int", "float", "str"}
        THEN LET e == evalComparison(value, function, returnValue)
             IN  IF e.fault # NoFault THEN Raise(e.fault)
                 ELSE IF ~e.b THEN Return(TRUE) ELSE Go(filterEntry)
        ELSE IF value.type = "bool" /\ returnValue = S.True
        THEN IF ~value.b THEN Return(TRUE) ELSE Go(filterEntry)
        ELSE IF value.type = "bool" /\ returnValue = S.False
        THEN IF value.b THEN Return(TRUE) ELSE Go(filterEntry)
        ELSE IF function = S.not /\ value.type = "bool"
        THEN IF value.b THEN Return(TRUE) ELSE Go(filterEntry)
        ELSE IF function \in built_in_flags
        THEN IF returnValue = S.True
             THEN IF ~tokenFlag(d, token, function)
                  THEN Return(TRUE) ELSE Go(filterEntry)
             ELSE IF returnValue = S.False
             THEN IF tokenFlag(d, token, function)
                  THEN Return(TRUE) ELSE Go(filterEntry)
             ELSE Raise("Invalid selection value")
        ELSE IF function \in built_in_string_functions
        THEN IF tokenAttr(d, token, function) = V_str(returnValue)
             THEN Return(FALSE)
             ELSE Go(TRUE)
        ELSE IF has_extension(function)
        THEN LET v == tokenExt(d, token, function)
             IN  IF v.type # "NoneType" /\ inTrueFalse(v)
                 THEN IF returnValue = S.True
                      THEN IF ~truthy(v)
                           THEN Return(FALSE) ELSE Go(filterEntry)
                      ELSE IF returnValue = S.False
                      THEN IF truthy(v)
                           THEN Return(FALSE) ELSE Go(filterEntry)
                      ELSE Go(TRUE)
                 ELSE Go(filterEntry)
        ELSE Raise("Invalid filter")

\* the loop over returnValues from its k-th element, lines 2371-2442
RECURSIVE returnValuesLoop(_, _, _, _, _, _, _)
returnValuesLoop(d, token, entry, function, returnValues, k, filterEntry) ==
    IF k > Len(returnValues)
    THEN [do |-> "next", b |-> FALSE, fault |-> NoFault,
          filterEntry |-> filterEntry]
    ELSE LET after(r) ==
                 IF r.do # "next" THEN r
                 ELSE returnValuesLoop(d, token, entry, function,
                                       returnValues, k + 1, r.filterEntry)
         IN  after(filterStep(d, token, entry, function, returnValues[k],
                              filterEntry))

\* the inner loop over filters from its k-th element, lines 2370-2444
RECURSIVE innerFiltersLoop(_, _, _, _, _, _)
innerFiltersLoop(d, token, entry, filters, k, filterEntry) ==
    IF k > Len(filters)
    THEN [do |-> "next", b |-> FALSE, fault |-> NoFault,
          filterEntry |-> filterEntry]
    ELSE LET after(r) ==
                 IF r.do # "next" THEN r
                 ELSE IF r.filterEntry
                 THEN [do |-> "return", b |-> TRUE, fault |-> NoFault,
                       filterEntry |-> TRUE]
                 ELSE innerFiltersLoop(d, token, entry, filters, k + 1,
                                       r.filterEntry)
         IN  after(returnValuesLoop(d, token, entry, filters[k][1],
                                    filters[k][2], 1, filterEntry))

\* the outer loop over filters from its k-th element, lines 2368-2445:
\* each pass runs the inner loop over all the filters
RECURSIVE outerFiltersLoop(_, _, _, _, _, _)
outerFiltersLoop(d, token, entry, filters, k, filterEntry) ==
    IF k > Len(filters)
    THEN [fault |-> NoFault, b |-> FALSE]
    ELSE LET after(r) ==
                 IF r.do = "raise" THEN [fault |-> r.fault, b |-> FALSE]
                 ELSE IF r.do = "return" THEN [fault |-> NoFault, b |-> r.b]
                 ELSE outerFiltersLoop(d, token, entry, filters, k + 1,
                                       r.filterEntry)
         IN  after(innerFiltersLoop(d, token, entry, filters, 1, filterEntry))

\* b: the entry is filtered out
applyTokenFilters(d, token, entry, filters) ==
    outerFiltersLoop(d, token, entry, filters, 1, FALSE)

(***************************************************************************)
(* Transformations.                                                        *)
(***************************************************************************)
\* the sign of the float fns(n), and its order against 1 and against e,
\* for a natural number n: -1, 0 or 1 (e lies between 2 and 3, its square
\* between 7 and 8, its e-th power between 15 and 16).  The sign is that of
\* a float made by at most three functions.
sign(fns, n) ==
    LET cmpE(f, m) ==
            IF f = <<>> THEN (IF m <= 2 THEN -1 ELSE 1)
            ELSE IF f[1] = S.sqrt THEN (IF m <= 7 THEN -1 ELSE 1)
            ELSE (IF m <= 15 THEN -1 ELSE 1)
        RECURSIVE cmp1(_, _)
        cmp1(f, m) ==
            IF f = <<>> THEN (IF m < 1 THEN -1 ELSE IF m = 1 THEN 0 ELSE 1)
            ELSE IF f[1] = S.sqrt THEN cmp1(Tail(f), m)
            ELSE cmpE(Tail(f), m)
        RECURSIVE sgn(_, _)
        sgn(f, m) ==
            IF f = <<>> THEN (IF m < 0 THEN -1 ELSE IF m = 0 THEN 0 ELSE 1)
            ELSE IF f[1] = S.sqrt THEN sgn(Tail(f), m)
            ELSE cmp1(Tail(f), m)
    IN  sgn(fns, n)

\* the number a value stands for, as <<fns, n>>: bool is a kind of int
asNumber(v) ==
    CASE v.type = "bool" -> <<<<>>, IF v.b THEN 1 ELSE 0>>
      [] v.type = "int" -> <<<<>>, v.n>>
      [] v.type = "float" -> <<v.s, v.n>>

\* lines 2231-2236: float(str) of a number or of the text of one is a
\* float; of another string it raises the ValueError that is caught; of
\* None or a list it raises a TypeError, which is not
is_float(v) ==
    CASE v.type \in {"bool", "int", "float"} -> [fault |-> NoFault, b |-> TRUE]
      [] v.type = "str" -> [fault |-> NoFault, b |-> isNumeral(v.s)]
      [] OTHER -> [fault |-> "TypeError", b |-> FALSE]

\* math.log and math.sqrt, lines 2523 and 2527: a string is no number, and
\* the logarithm is defined of positive numbers only
mathFunction(transformation, v) ==
    IF v.type = "str" THEN [fault |-> "TypeError", value |-> v]
    ELSE LET x == asNumber(v)
         IN  IF transformation = S.log /\ sign(x[1], x[2]) <= 0
             THEN [fault |-> "ValueError", value |-> v]
             ELSE [fault |-> NoFault,
                   value |-> V_float(<<transformation>> \o x[1], x[2])]

\* entry['value'] < 0, line 2520
lessThanZero(v) ==
    IF v.type = "str" THEN [fault |-> "TypeError", b |-> FALSE]
    ELSE LET x == asNumber(v)
         IN  [fault |-> NoFault, b |-> sign(x[1], x[2]) < 0]

\* one pass of the loop of applyTokenTransformations, lines 2493-2539
tokenTransformation(d, token, entry, transformation) ==
    LET Keep == [fault |-> NoFault, entry |-> entry]
        Raise(f) == [fault |-> f, entry |-> entry]
    IN  IF ~reMatchWord(transformation)
        THEN Raise("Invalid transformation")
        ELSE IF transformation = S.text
        THEN [fault |-> NoFault,
              entry |-> [entry EXCEPT !.value = V_str(entry.text),
                                      !.name = S.text_ \o entry.name]]
        ELSE IF transformation = S.len /\ entry.value.type \in {"str", "list"}
        THEN [fault |-> NoFault,
              entry |-> [entry EXCEPT
                           !.value = IF entry.value.type = "str"
                                     THEN V_int(Len(entry.value.s))
                                     ELSE V_int(Len(entry.value.l)),
                           !.name = S.len_ \o entry.name]]
        ELSE IF transformation \in built_in_flags
        THEN [fault |-> NoFault,
              entry |-> [entry EXCEPT
                           !.value = V_bool(tokenFlag(d, token,
                                                      transformation)),
                           !.name = transformation \o <<"_">> \o entry.name]]
        ELSE IF transformation \in {S.log, S.sqrt}
        THEN IF entry.value.type = "NoneType" THEN Keep
             ELSE LET f == is_float(entry.value)
                  IN  IF f.fault # NoFault THEN Raise(f.fault)
                      ELSE IF ~f.b THEN Keep
                      ELSE LET neg == IF transformation = S.sqrt
                                      THEN lessThanZero(entry.value)
                                      ELSE [fault |-> NoFault, b |-> FALSE]
                               r == mathFunction(transformation, entry.value)
                           IN  IF neg.fault # NoFault THEN Raise(neg.fault)
                               ELSE IF neg.b THEN Keep
                               ELSE IF r.fault # NoFault THEN Raise(r.fault)
                               ELSE [fault |-> NoFault,
                                     entry |-> [entry EXCEPT
                                        !.value = r.value,
                                        !.name = (IF transformation = S.log
                                                  THEN S.log_ ELSE S.sqrt_)
                                                 \o entry.name]]
        ELSE Keep

\* lines 2487-2540: the transformations in their order
RECURSIVE applyTokenTransformations(_, _, _, _)
applyTokenTransformations(d, entry, token, transformations) ==
    IF transformations = <<>> THEN [fault |-> NoFault, entry |-> entry]
    ELSE LET after(r) ==
                 IF r.fault # NoFault THEN r
                 ELSE applyTokenTransformations(d, r.entry, token,
                                                Tail(transformations))
         IN  after(tokenTransformation(d, token, entry,
                                       Head(transformations)))

\* one pass of the inner loop of applySpanTransformations, lines 2462-2482
spanTransformation(entry, transformation) ==
    LET first ==
            IF transformation = S.text
            THEN [entry EXCEPT !.value = V_str(entry.text),
                               !.name = S.text_ \o entry.name]
            ELSE IF transformation = S.len
                    /\ entry.value.type \in {"str", "list"}
            THEN [entry EXCEPT !.value = V_int(entry.length),
                               !.name = S.clen_ \o entry.name]
            ELSE entry
    IN  IF transformation = S.tokenlen /\ first.value.type = "str"
        THEN [first EXCEPT
                !.value = V_int(1 + first.endToken - first.startToken),
                !.name = S.tlen_ \o first.name]
        ELSE first

\* lines 2453-2484.  The entries of baseInfo are changed in place: the
\* list returned holds the entries of the list received, and info is that
\* list as it is when the call returns or raises.
RECURSIVE applySpanTransformations(_, _)
applySpanTransformations(transformations, baseInfo) ==
    IF transformations = <<>> THEN [fault |-> NoFault, info |-> baseInfo]
    ELSE IF ~reMatchWord(Head(transformations))
    THEN [fault |-> "Invalid transformation", info |-> baseInfo]
    ELSE applySpanTransformations(
            Tail(transformations),
            [e \in DOMAIN baseInfo |->
                spanTransformation(baseInfo[e], Head(transformations))])

(***************************************************************************)
(* Span records.                                                           *)
(***************************************************************************)
\* document.sents, as <<start, end>> with end exclusive
sents(d) ==
    LET starts == {i \in DOMAIN d : is_sent_start(d, i)}
        endOf(i) == IF \E j \in starts : j > i
                    THEN CHOOSE j \in starts :
                            j > i /\ \A k \in starts : k > i => j <= k
                    ELSE DocLen(d)
        RECURSIVE from(_)
        from(i) == IF i >= DocLen(d) THEN <<>>
                   ELSE <<<<i, endOf(i)>>>> \o from(endOf(i))
    IN  from(0)

\* the loop of lines 2334-2345 from token k, with the local variables
RECURSIVE delimiterLoop(_, _, _, _, _, _, _)
delimiterLoop(indicator, d, k, currentStart, currentEnd, segmentNo, baseInfo) ==
    IF k >= DocLen(d)
    THEN [fault |-> NoFault, currentStart |-> currentStart,
          currentEnd |-> currentEnd, segmentNo |-> segmentNo,
          baseInfo |-> baseInfo]
    ELSE LET delimiter == SubSeq(indicator, 11, Len(indicator))
         IN  IF isSubstring(delimiter, d[k].text)
             THEN LET e == newSpanEntry(indicator, currentStart, k, d,
                                        V_str(delimiter))
                  IN  IF e.fault # NoFault
                      THEN [fault |-> e.fault, currentStart |-> currentStart,
                            currentEnd |-> k, segmentNo |-> segmentNo,
                            baseInfo |-> baseInfo]
                      ELSE delimiterLoop(indicator, d, k + 1, k, k,
                                         segmentNo + 1,
                                         Append(baseInfo, e.entry))
             ELSE delimiterLoop(indicator, d, k + 1, currentStart, k,
                                segmentNo, baseInfo)

RECURSIVE sentsLoop(_, _, _, _)
sentsLoop(d, spans, k, baseInfo) ==
    IF k > Len(spans) THEN [fault |-> NoFault, info |-> baseInfo]
    ELSE LET e == newSpanEntry(S.sents, spans[k][1], spans[k][2] - 1, d,
                               V_str(S.sentence))
         IN  IF e.fault # NoFault THEN [fault |-> e.fault, info |-> baseInfo]
             ELSE sentsLoop(d, spans, k + 1, Append(baseInfo, e.entry))

\* lines 2302-2359.  own: the list returned is the list that the document
\* holds as its extension attribute, not a new one
createSpanInfo(indicator, d, x) ==
    IF indicator = S.sents
    THEN LET r == sentsLoop(d, sents(d), 1, <<>>)
         IN  [fault |-> r.fault, info |-> r.info, own |-> FALSE]
    ELSE IF indicator \in docspan_extensions
    THEN [fault |-> NoFault,
          info |-> IF indicator \in DOMAIN x THEN x[indicator] ELSE <<>>,
          own |-> TRUE]
    ELSE IF startsWith(indicator, S.delimiter_)
    THEN LET r == delimiterLoop(indicator, d, 0, 0, 0, 0, <<>>)
         IN  IF r.fault # NoFault
             THEN [fault |-> r.fault, info |-> r.baseInfo, own |-> FALSE]
             ELSE IF r.currentEnd > r.currentStart
             THEN LET e == newSpanEntry(indicator, r.currentStart,
                                        DocLen(d) - 1, d,
                                        V_int(r.segmentNo))
                  IN  [fault |-> e.fault,
                       info |-> IF e.fault = NoFault
                                THEN Append(r.baseInfo, e.entry)
                                ELSE r.baseInfo,
                       own |-> FALSE]
             ELSE [fault |-> NoFault, info |-> r.baseInfo, own |-> FALSE]
    ELSE [fault |-> "Invalid indicator", info |-> <<>>, own |-> FALSE]

(***************************************************************************)
(* Summaries.  info is the table of the records, one row a record.  A      *)
(* summary is a Python value; to the types of values it adds "json", a     *)
(* text in JSON of the list l (of <<category, count>> for counts, of the   *)
(* rows for the table), and "stat", the float that the statistic named s   *)
(* is of the numbers l.  A proportion is the float n / l[1].               *)
(***************************************************************************)
V_json(l) == [type |-> "json", b |-> FALSE, n |-> 0, s |-> <<>>, l |-> l]
V_stat(name, l) == [type |-> "stat", b |-> FALSE, n |-> 0, s |-> name, l |-> l]
V_proportion(n, m) ==
    [type |-> "proportion", b |-> FALSE, n |-> n, s |-> <<>>, l |-> <<m>>]

\* info['value'] without its null entries
valuesOf(baseInfo) ==
    LET all == [k \in DOMAIN baseInfo |-> baseInfo[k].value]
        notNull(v) == v.type # "NoneType"
    IN  SelectSeq(all, notNull)

\* the type of the column info['value']: a column of bools, of ints, of
\* numbers (with null entries as NaN) or of strings; any other is a column
\* of objects
dtype(baseInfo) ==
    LET types == {baseInfo[k].value.type : k \in DOMAIN baseInfo}
    IN  IF types = {"bool"} THEN "bool"
        ELSE IF types = {"int"} THEN "int64"
        ELSE IF types \subseteq {"int", "float", "NoneType"}
                /\ types # {"NoneType"} THEN "float64"
        ELSE IF types = {"str"} THEN "str"
        ELSE "object"

count(values, v) == Cardinality({k \in DOMAIN values : values[k] = v})

\* the distinct values in the order of their first occurrence
RECURSIVE distinct(_)
distinct(values) ==
    IF values = <<>> THEN <<>>
    ELSE LET rest == distinct(SubSeq(values, 1, Len(values) - 1))
             last == values[Len(values)]
         IN  IF Contains(rest, last) THEN rest ELSE Append(rest, last)

\* value_counts(): the distinct values, the most frequent first
RECURSIVE byCount(_, _)
byCount(values, cats) ==
    IF cats = <<>> THEN <<>>
    ELSE LET best == CHOOSE k \in DOMAIN cats :
                        /\ \A j \in DOMAIN cats :
                              count(values, cats[j]) <= count(values, cats[k])
                        /\ \A j \in 1..(k - 1) :
                              count(values, cats[j]) < count(values, cats[k])
             others == [j \in 1..(Len(cats) - 1) |->
                          IF j < best THEN cats[j] ELSE cats[j + 1]]
         IN  <<cats[best]>> \o byCount(values, others)

value_counts(baseInfo) ==
    LET values == valuesOf(baseInfo)
    IN  byCount(values, distinct(values))

\* json.dumps of a value that is no string
jsonDumps(v) ==
    LET RECURSIVE strOfNat(_)
        strOfNat(n) ==
            IF n < 10 THEN <<Digits[n + 1]>>
            ELSE strOfNat(n \div 10) \o <<Digits[(n % 10) + 1]>>
    IN
    CASE v.type = "bool" -> V_str(IF v.b THEN <<"t","r","u","e">>
                                   ELSE <<"f","a","l","s","e">>)
      [] v.type = "int" -> V_str(strOfNat(v.n))
      [] OTHER -> v

\* the list 'output' of lines 2586-2593 and 2600-2607
uniqueCategories(summary) ==
    LET category(v) == IF v.type # "str" THEN jsonDumps(v) ELSE v
    IN  distinct([k \in DOMAIN summary |-> category(summary[k])])

\* value_counts() hashes the values, and a list has no hash; the index of
\* the counts of a column of bools or of ints holds numpy scalars, which
\* json.dumps takes neither as keys nor as values
countsFault(baseInfo) ==
    IF \E k \in DOMAIN baseInfo : baseInfo[k].value.type = "list"
    THEN "TypeError"
    ELSE IF dtype(baseInfo) \in {"bool", "int64"} THEN "TypeError"
    ELSE NoFault

\* s < t in the order of strings, by the order of the characters of the
\* model: digits, then capitals, then small letters, then others
RECURSIVE strLess(_, _)
strLess(a, b) ==
    LET charRank(c) ==
            IF isDigitChar(c) THEN CHOOSE k \in 1..10 : Digits[k] = c
            ELSE IF isUpperChar(c)
            THEN 10 + CHOOSE k \in 1..26 : UpperCase[k] = c
            ELSE IF isLowerChar(c)
            THEN 40 + CHOOSE k \in 1..26 : LowerCase[k] = c
            ELSE 0
    IN  IF b = <<>> THEN FALSE
        ELSE IF a = <<>> THEN TRUE
        ELSE IF charRank(a[1]) # charRank(b[1])
        THEN charRank(a[1]) < charRank(b[1])
        ELSE strLess(Tail(a), Tail(b))

\* info['value'].max() and .min() and the conversion of lines 2664-2667
extreme(baseInfo, isMax) ==
    LET values == valuesOf(baseInfo)
        t == dtype(baseInfo)
        name == IF isMax THEN S.max ELSE S.min
    IN  IF t = "int64"
        THEN LET ns == {values[k].n : k \in DOMAIN values}
             IN  [fault |-> NoFault,
                  value |-> V_int(CHOOSE n \in ns : \A m \in ns :
                                     IF isMax THEN m <= n ELSE n <= m)]
        ELSE IF t = "bool"
        THEN LET bs == {values[k].b : k \in DOMAIN values}
             IN  [fault |-> NoFault,
                  value |-> V_float(<<>>, IF isMax
                                          THEN (IF TRUE \in bs THEN 1 ELSE 0)
                                          ELSE (IF FALSE \in bs THEN 0 ELSE 1))]
        ELSE IF t = "float64"
        THEN [fault |-> NoFault, value |-> V_stat(name, values)]
        ELSE IF t = "str"
        THEN LET ss == {values[k].s : k \in DOMAIN values}
                 m == CHOOSE x \in ss : \A y \in ss :
                         IF isMax THEN ~strLess(x, y) ELSE ~strLess(y, x)
             IN  IF isNumeral(m)
                 THEN [fault |-> NoFault, value |-> V_float(<<>>, natOfStr(m))]
                 ELSE [fault |-> "ValueError", value |-> V_None]
        ELSE [fault |-> "TypeError", value |-> V_None]

\* mean, median and std of the column: floats of a column of numbers
statistic(baseInfo, name) ==
    IF dtype(baseInfo) \in {"bool", "int64", "float64"}
    THEN [fault |-> NoFault, value |-> V_stat(name, valuesOf(baseInfo))]
    ELSE [fault |-> "TypeError", value |-> V_None]

\* round(100 * total / n), to the even number of two that are as near
percentOf(total, n) ==
    LET q == (100 * total) \div n
        r == (100 * total) % n
    IN  IF 2 * r < n THEN q
        ELSE IF 2 * r > n THEN q + 1
        ELSE IF q % 2 = 0 THEN q ELSE q + 1

\* a summary that counts the tokens of the document, not the records
applySummaryFunction_countsTokens(baseInfo, summaryType, d) ==
    [fault |-> NoFault, value |-> V_int(DocLen(d))]

\* a proportion without the test of line 2609 on the empty table
applySummaryFunction_unguardedProportion(baseInfo, summaryType, d) ==
    LET total == Cardinality({k \in DOMAIN baseInfo :
                                 truthy(baseInfo[k].value)})
    IN  IF DocLen(d) = 0
        THEN [fault |-> "ZeroDivisionError", value |-> V_None]
        ELSE [fault |-> NoFault, value |-> V_proportion(total, DocLen(d))]

\* lines 2543-2687.  summaryType is a Python value, a string or None.
applySummaryFunction(baseInfo, summaryType, d) ==
    LET Return(v) == [fault |-> NoFault, value |-> v]
        Raise(f) == [fault |-> f, value |-> V_None]
        none == summaryType.type = "NoneType"
        name == summaryType.s
        n == Len(baseInfo)
        summary == value_counts(baseInfo)
    IN  IF ~none /\ name # S.empty /\ ~reMatchWord(name)
        THEN Raise("Invalid summary function")
        ELSE IF n = 0 /\ (none \/ name = S.empty) THEN Return(V_json(<<>>))
        ELSE IF ~none /\ name = S.counts
        THEN IF n = 0 THEN Return(V_json(<<>>))
             ELSE IF countsFault(baseInfo) # NoFault
             THEN Raise(countsFault(baseInfo))
             ELSE Return(V_json([k \in DOMAIN summary |->
                    <<summary[k], count(valuesOf(baseInfo), summary[k])>>]))
        ELSE IF ~none /\ name = S.total THEN Return(V_int(n))
        ELSE IF ~none /\ name = S.uniq
        THEN IF n = 0 THEN Return(V_json(<<>>))
             ELSE IF countsFault(baseInfo) # NoFault
             THEN Raise(countsFault(baseInfo))
             ELSE Return(V_list(uniqueCategories(summary)))
        ELSE IF ~none /\ name = S.totaluniq
        THEN IF n = 0 THEN Return(V_int(0))
             ELSE IF countsFault(baseInfo) # NoFault
             THEN Raise(countsFault(baseInfo))
             ELSE Return(V_int(Len(uniqueCategories(summary))))
        ELSE IF ~none /\ name \in {S.proportion, S.percent}
        THEN IF n = 0 THEN Return(V_None)
             ELSE LET total == Cardinality({k \in DOMAIN baseInfo :
                                               truthy(baseInfo[k].value)})
                  IN  IF DocLen(d) = 0 THEN Raise("ZeroDivisionError")
                      ELSE IF name = S.proportion
                      THEN Return(V_proportion(total, DocLen(d)))
                      ELSE Return(V_int(percentOf(total, DocLen(d))))
        ELSE IF ~none /\ name \in {S.mean, S.median}
        THEN IF n = 0 THEN Return(V_None) ELSE statistic(baseInfo, name)
        ELSE IF ~none /\ name = S.stdev
        THEN IF n = 0 THEN Return(V_None)
             ELSE IF n > 2 THEN statistic(baseInfo, name)
             ELSE Return(V_None)
        ELSE IF ~none /\ name \in {S.max, S.min}
        THEN IF n = 0 THEN Return(V_None)
             ELSE extreme(baseInfo, name = S.max)
        ELSE IF none \/ name = S.empty
        THEN IF n = 0 THEN Return(V_None) ELSE Return(V_json(baseInfo))
        ELSE Raise("Invalid summary function")

(***************************************************************************)
(* AWE_Info, lines 2690-2744.                                              *)
(***************************************************************************)
\* the faults that the module raises as AWE_Workbench_Error
WorkbenchFaults ==
    {"Invalid indicator", "Invalid indicator type", "Invalid filter",
     "Invalid selection value", "Invalid transformation",
     "Invalid summary function"}

\* AWE_Workbench_Error (of the package's errors module) is an Exception,
\* as the errors of a program are
AWE_Workbench_Error_is_Exception == TRUE

\* a handler that prints the fault and raises it again
handled_reraised(fault) == fault

\* lines 2742-2744: the handler of AWE_Info takes every Exception, prints
\* it and raises AWE_Workbench_Error('error in code') in its place
handled(fault) ==
    IF fault \in WorkbenchFaults /\ ~AWE_Workbench_Error_is_Exception
    THEN fault
    ELSE "error in code"

\* the loop over the tokens from token k, lines 2713-2731.  built counts
\* the entries that newTokenEntry has made.
RECURSIVE tokenLoop(_, _, _, _, _, _, _)
tokenLoop(d, indicator, filters, transformations, k, baseInfo, built) ==
    LET Raise(f) == [fault |-> f, baseInfo |-> baseInfo, built |-> built + 1]
        Next(info) == tokenLoop(d, indicator, filters, transformations,
                                k + 1, info, built + 1)
        transformed(t) ==
            IF t.fault # NoFault THEN Raise(t.fault)
            ELSE Next(Append(baseInfo, t.entry))
        filtered(entry, f) ==
            IF f.fault # NoFault THEN Raise(f.fault)
            ELSE IF f.b THEN Next(baseInfo)
            ELSE transformed(applyTokenTransformations(d, entry, k,
                                                       transformations))
        made(e) ==
            IF e.fault # NoFault THEN Raise(e.fault)
            ELSE filtered(e.entry,
                    IF filters.type = "list" /\ Len(filters.l) > 0
                    THEN applyTokenFilters(d, k, e.entry, filters.l)
                    ELSE IF filters # V_list(<<>>)
                    THEN [fault |-> "Invalid filter", b |-> FALSE]
                    ELSE [fault |-> NoFault, b |-> FALSE])
    IN  IF k >= DocLen(d)
        THEN [fault |-> NoFault, baseInfo |-> baseInfo, built |-> built]
        ELSE made(newTokenEntry(indicator, d, k, V_None))

\* raised: the text of the error that reaches the caller, "" on a return;
\* printed: the fault that the handler printed; value: the value returned;
\* baseInfo: the records when the query ended; x: the extension attributes
\* of the document after the call
AWE_Info(d, x, infoType, indicator, filters, transformations, summaryType) ==
    LET Raised(fault, baseInfo, built, xx) ==
            [raised |-> handled(fault), printed |-> fault, value |-> V_None,
             baseInfo |-> baseInfo, built |-> built, x |-> xx]
        summarized(sum, baseInfo, built, xx) ==
            IF sum.fault # NoFault
            THEN Raised(sum.fault, baseInfo, built, xx)
            ELSE [raised |-> NoFault, printed |-> NoFault,
                  value |-> sum.value, baseInfo |-> baseInfo,
                  built |-> built, x |-> xx]
        Outcome(fault, baseInfo, built, xx) ==
            IF fault # NoFault THEN Raised(fault, baseInfo, built, xx)
            ELSE summarized(applySummaryFunction(baseInfo, summaryType, d),
                            baseInfo, built, xx)
        spansTransformed(t, own) ==
            Outcome(t.fault, t.info, 0,
                    IF own /\ indicator \in DOMAIN x
                    THEN [x EXCEPT ![indicator] = t.info]
                    ELSE x)
        spansMade(c) ==
            IF c.fault # NoFault THEN Outcome(c.fault, c.info, 0, x)
            ELSE spansTransformed(
                    applySpanTransformations(transformations, c.info), c.own)
        tokensDone(r) == Outcome(r.fault, r.baseInfo, r.built, x)
    IN  IF ~reMatchWord(indicator)
        THEN Outcome("Invalid indicator", <<>>, 0, x)
        ELSE IF infoType = S.Doc
        THEN spansMade(createSpanInfo(indicator, d, x))
        ELSE IF infoType = S.Token
        THEN tokensDone(tokenLoop(d, indicator, filters, transformations, 0,
                                  <<>>, 0))
        ELSE Outcome("Invalid indicator type", <<>>, 0, x)

(***************************************************************************)
(* Documents and queries of the query engine's specification.              *)
(***************************************************************************)
QueryLexicon == {
    Word(<<"c","a","t","s">>, <<"c","a","t">>, "NOUN", "NNS", "nsubj", {"Number=Plur"}, TRUE),
    Word(<<"x","-","r","a","y">>, <<"x","-","r","a","y">>, "NOUN", "NN", "dobj", {"Number=Sing"}, FALSE),
    Word(<<"4","2">>, <<"4","2">>, "NUM", "CD", "nummod", {"NumType=Card"}, FALSE),
    Word(<<"s","a","w">>, <<"s","e","e">>, "VERB", "VBD", "ccomp", {"Tense=Past"}, FALSE),
    Word(<<".">>, <<".">>, "PUNCT", ".", "punct", {"PunctType=Peri"}, FALSE),
    [Word(<<"\n">>, <<"\n">>, "SPACE", "_SP", "dep", {}, FALSE)
        EXCEPT !.ws = <<>>] }

QueryDocs(n) ==
    { [i \in 0..(n - 1) |-> Token(words[i], i, headOf(words, i))] :
        words \in [0..(n - 1) -> QueryLexicon] }

\* document._ by the names of the extensions that hold records: the parser
\* has put the first sentence of a document under main_ideas, and nothing
\* under the other extensions
docExt(d) ==
    [name \in {S.main_ideas} |->
        IF DocLen(d) > 0
        THEN <<newSpanEntry(S.main_ideas, sents(d)[1][1], sents(d)[1][2] - 1,
                            d, V_str(S.sentence)).entry>>
        ELSE <<>>]

Query(infoType, indicator, filters, transformations, summaryType) ==
    [infoType |-> infoType, indicator |-> indicator, filters |-> filters,
     transformations |-> transformations, summaryType |-> summaryType]

\* the queries of the model: Token queries with lists of 1 to MaxFilters
\* distinct filters; Doc queries; queries with parts that are not valid;
\* Token queries with transformations; queries with summaries
Queries ==
    LET FilterPool == {
            <<S.pos_, <<S.NOUN>>>>,
            <<S.pos_, <<S.NUM, S.NOUN>>>>,
            <<S.is_alpha, <<S.True>>>>,
            <<S.is_digit, <<S.False>>>>,
            <<S.animate, <<S.True>>>>,
            <<S.animate, <<S.False>>>>,
            <<S.vwp_speaker, <<S.True>>>>,
            <<S.eq, <<<<"4","2">>>>>>,
            <<S.nosuch, <<S.True>>>> }
        FilterLists ==
            { l \in UNION { [1..k -> FilterPool] : k \in 1..MaxFilters } :
                \A i, j \in DOMAIN l : i # j => l[i] # l[j] }
        FilterQueries ==
            { Query(S.Token, i, V_list(f), <<>>, V_None) :
                i \in {S.pos_, S.is_alpha, S.text}, f \in FilterLists }
        SpanQueries ==
            { Query(S.Doc, i, V_list(<<>>), t, V_None) :
                i \in {S.sents, S.delimiter_ \o <<"\n">>,
                       S.delimiter_ \o <<".">>, S.delimiter_, S.main_ideas,
                       S.pos_},
                t \in {<<>>, <<S.text>>, <<S.len>>, <<S.tokenlen>>,
                       <<S.text, S.tokenlen>>, <<S.len, S.bang>>} }
        FaultyQueries ==
            { Query(ty, i, V_list(f), t, s) :
                ty \in {S.Token, S.Doc, S.Sentence},
                i \in {S.pos_, S.bad_indicator, S.nosuch, <<" ">>},
                f \in {<<>>, <<<<S.nosuch, <<S.True>>>>>>},
                t \in {<<>>, <<S.bang>>},
                s \in {V_None, V_str(S.bang), V_str(S.nosuch)} }
            \cup { Query(S.Token, S.pos_, f, <<>>, V_None) :
                     f \in {V_None, V_str(S.nosuch),
                            V_list(<<<<S.is_alpha, <<S.nosuch>>>>>>)} }
        TransformationQueries ==
            { Query(S.Token, i, V_list(<<>>), t, V_None) :
                i \in {S.pos_, S.idx, S.is_alpha, S.text,
                       S.governing_subject, S.vwp_speaker},
                t \in {<<S.log>>, <<S.sqrt>>, <<S.len>>, <<S.text>>,
                       <<S.is_alpha>>, <<S.log, S.log>>, <<S.sqrt, S.log>>,
                       <<S.log, S.log, S.sqrt>>, <<S.text, S.len>>} }
        RelationalQueries ==
            { Query(S.Token, i, V_list(<<<<f, <<<<"4","2">>>>>>>>), <<>>,
                    V_None) :
                i \in {S.text, S.idx, S.is_alpha},
                f \in {S.gt, S.lt, S.ge, S.le, S.le_indented} }
        SummaryTypes ==
            {V_None, V_str(S.empty)}
            \cup { V_str(s) : s \in {S.counts, S.total, S.uniq, S.totaluniq,
                                    S.proportion, S.percent, S.mean,
                                    S.median, S.stdev, S.max, S.min} }
        SummaryQueries ==
            { Query(S.Token, i, V_list(f), <<>>, s) :
                i \in {S.pos_, S.idx, S.is_alpha, S.text, S.governing_subject},
                f \in {<<>>, <<<<S.is_digit, <<S.True>>>>>>},
                s \in SummaryTypes }
            \cup { Query(S.Doc, i, V_list(<<>>), <<>>, s) :
                     i \in {S.sents, S.main_ideas}, s \in SummaryTypes }
    IN  FilterQueries \cup SpanQueries \cup FaultyQueries
        \cup TransformationQueries \cup RelationalQueries
        \cup SummaryQueries

(***************************************************************************)
(* The resolver's specification: a parsed document, then one call of       *)
(* ResolveReference on one of its tokens, in some environment.             *)
(***************************************************************************)
NoArgs == [tok |-> None]
NoRet == [ret |-> <<>>]

Init ==
    /\ doc \in UNION { ParsedDocs(n) : n \in 1..MaxLen }
    /\ ext = docExt(doc)
    /\ op = "none"
    /\ args = NoArgs
    /\ ret = NoRet

\* the environments of a call on token t.  What the call cannot read is
\* fixed: the probability service without coreference data or for a token
\* that is no plural pronoun, vwp_addressee beside a vwp_speaker (but for
\* the attribute [0]).  A call with an override meets no coreference data,
\* no proposal or a proposal of one token.
Environment(t, coref, wspc, vwp_speaker, vwp_addressee) ==
    [tok |-> t, coref |-> coref, wspc |-> wspc,
     vwp_speaker |-> vwp_speaker, vwp_addressee |-> vwp_addressee]

Environments(d, t) ==
    LET plural == lower(d[t].text) \in PluralForms
        up == [connect |-> TRUE, answers |-> TRUE, res1 |-> 0, res2 |-> 1]
        down == [connect |-> FALSE, answers |-> FALSE, res1 |-> 0, res2 |-> 0]
        clients == IF plural THEN WordseqProbClients ELSE {up, down}
        overrides ==
            { sa \in Attrs(d) \X Attrs(d) :
                /\ sa[1] # NoAttr \/ sa[2] # NoAttr
                /\ sa[1] # NoAttr
                     => \/ sa[2] = NoAttr
                        \/ sa[2] = Attr(<<0>>) /\ Len(sa[1].items) <= 1 }
        shortChains ==
            { Chains(d, t, p, <<>>) :
                p \in {q \in Proposals(d, t) : Len(q.items) <= 1} }
    IN  { Environment(t, NoCoref(d), down, NoAttr, NoAttr) }
        \cup { Environment(t, e[1], e[2], NoAttr, NoAttr) :
                 e \in CorefChains(d, t) \X clients }
        \cup { Environment(t, NoCoref(d), down, sa[1], sa[2]) : sa \in overrides }
        \cup { Environment(t, e[1], IF plural THEN up ELSE down, e[2][1], e[2][2]) :
                 e \in shortChains \X overrides }

ResolveReferenceCall ==
    /\ op = "none"
    /\ \E t \in DOMAIN doc :
         \E a \in Environments(doc, t) :
            /\ op' = "ResolveReference"
            /\ args' = a
            /\ ret' = ResolveReference(doc, a.coref, a.wspc, t,
                                       a.vwp_speaker, a.vwp_addressee)
    /\ UNCHANGED <<doc, ext>>

Next == ResolveReferenceCall

Spec == Init /\ [][Next]_vars

(***************************************************************************)
(* Claims about ResolveReference.                                          *)
(***************************************************************************)
Resolved == op = "ResolveReference"
NoOverride == args.vwp_speaker = NoAttr /\ args.vwp_addressee = NoAttr
TargetIsPlural == lower(doc[args.tok].text) \in PluralForms
Proposed == args.coref.resolve[args.tok]

\* the indices of list whose token is not a pronoun (and, for the speaker,
\* whose lemma is not 'mine'), in the order of list
NonPronouns(list) ==
    LET keep(i) == doc[i].pos_ # "PRON" IN SelectSeq(list, keep)
NonPronounsNotMine(list) ==
    LET keep(i) == doc[i].pos_ # "PRON" /\ doc[i].lemma_ # W_mine
    IN  SelectSeq(list, keep)

\* C1: ResolveReference never returns an empty list, on any path.
C1_NeverEmpty == Resolved => Len(ret.ret) >= 1

\* C1 witness: a plural pronoun at index 2 or later, nothing proposed, no
\* override: the backward scan ran, found nothing, and the call fell back
\* to the pronoun's own index
C1_Witness ==
    /\ Resolved /\ args.coref.present /\ NoOverride /\ TargetIsPlural
    /\ Proposed = NoProposal
    /\ args.tok >= 2
    /\ ret.ret = <<args.tok>>

\* C2: without coreference-chain data the result is [tok.i] and neither the
\* coreference service nor the probability service is consulted.
C2_CorefOff ==
    (Resolved /\ ~args.coref.present)
      => /\ ret.ret = <<args.tok>>
         /\ ret.lookups = 0
         /\ ret.connects = 0
         /\ ret.sent = <<>>

\* C2 witness: a call without coreference data on a document of several
\* tokens
C2_Witness ==
    /\ Resolved /\ ~args.coref.present /\ NoOverride
    /\ DocLen(doc) > 1
    /\ ret.ret = <<args.tok>>

\* C3 as stated: a speaker (or addressee) attribute naming a non-pronoun
\* index decides the result whatever the coreference data is, also when
\* the document has none.
C3_OverrideAlways ==
    /\ (Resolved /\ args.vwp_speaker # NoAttr
          /\ NonPronouns(args.vwp_speaker.items) # <<>>)
         => ret.ret = (IF NonPronounsNotMine(args.vwp_speaker.items) = <<>>
                       THEN <<args.tok>>
                       ELSE NonPronounsNotMine(args.vwp_speaker.items))
    /\ (Resolved /\ args.vwp_speaker = NoAttr /\ args.vwp_addressee # NoAttr
          /\ NonPronouns(args.vwp_addressee.items) # <<>>)
         => ret.ret = NonPronouns(args.vwp_addressee.items)

\* C3 amended: the same, for a document that has coreference-chain data
\* (without it the result is [tok.i], override or not).
C3_OverrideWithCoref ==
    /\ (Resolved /\ args.coref.present /\ args.vwp_speaker # NoAttr
          /\ NonPronouns(args.vwp_speaker.items) # <<>>)
         => ret.ret = (IF NonPronounsNotMine(args.vwp_speaker.items) = <<>>
                       THEN <<args.tok>>
                       ELSE NonPronounsNotMine(args.vwp_speaker.items))
    /\ (Resolved /\ args.coref.present
          /\ args.vwp_speaker = NoAttr /\ args.vwp_addressee # NoAttr
          /\ NonPronouns(args.vwp_addressee.items) # <<>>)
         => ret.ret = NonPronouns(args.vwp_addressee.items)
    /\ (Resolved /\ ~args.coref.present) => ret.ret = <<args.tok>>

\* C3 witness: the coreference service proposed a token, the speaker
\* attribute names another, and the result is the speaker's
C3_Witness ==
    /\ Resolved /\ args.coref.present
    /\ Proposed.kind = "List" /\ Len(Proposed.items) = 1
    /\ args.vwp_speaker # NoAttr
    /\ NonPronounsNotMine(args.vwp_speaker.items) # <<>>
    /\ ~Contains(args.vwp_speaker.items, Proposed.items[1])
    /\ ret.ret = NonPronounsNotMine(args.vwp_speaker.items)

\* C4: with coreference data, a speaker attribute makes the result the
\* attribute's indices that are neither pronouns nor 'mine', in the
\* attribute's order, and [tok.i] when none is left.
C4_SpeakerFilter ==
    (Resolved /\ args.coref.present /\ args.vwp_speaker # NoAttr)
      => LET kept == NonPronounsNotMine(args.vwp_speaker.items)
         IN  /\ kept # <<>> => ret.ret = kept
             /\ kept = <<>> => ret.ret = <<args.tok>>

\* C4 witness: a speaker attribute of two indices, one of them the token
\* 'mine', the other kept
C4_Witness ==
    /\ Resolved /\ args.coref.present /\ args.vwp_speaker # NoAttr
    /\ Len(args.vwp_speaker.items) = 2
    /\ \E k \in 1..2 : /\ doc[args.vwp_speaker.items[k]].lemma_ = W_mine
                       /\ doc[args.vwp_speaker.items[k]].pos_ # "PRON"
    /\ Len(ret.ret) = 1
    /\ ret.ret[1] # args.tok

\* C5: a token that is no plural pronoun, with no override and a non-empty
\* proposal, resolves to the proposed indices in the service's order, and
\* no request goes to the probability service.
C5_AcceptProposal ==
    (Resolved /\ args.coref.present /\ NoOverride /\ ~TargetIsPlural
       /\ Proposed.kind = "List" /\ Proposed.items # <<>>)
      => /\ ret.ret = Proposed.items
         /\ ret.sent = <<>>

\* C5 witness: a proposal of two tokens, the later one first, one of them
\* inanimate, with a reachable probability service
C5_Witness ==
    /\ Resolved /\ args.coref.present /\ NoOverride /\ ~TargetIsPlural
    /\ Proposed.kind = "List" /\ Len(Proposed.items) = 2
    /\ Proposed.items[1] > Proposed.items[2]
    /\ \E k \in 1..2 : ~doc[Proposed.items[k]].animate
    /\ args.wspc.connect
    /\ ret.ret = Proposed.items

\* C6: with the probability service unreachable, a plural pronoun whose
\* proposal mixes animate and inanimate antecedents resolves to exactly the
\* proposal: each proposed index once, in the proposed order.
C6_DegradeToProposal ==
    (Resolved /\ args.coref.present /\ NoOverride /\ TargetIsPlural
       /\ (~args.wspc.connect \/ ~args.wspc.answers)
       /\ Proposed.kind = "List"
       /\ (\E k \in 1..Len(Proposed.items) : doc[Proposed.items[k]].animate)
       /\ (\E k \in 1..Len(Proposed.items) : ~doc[Proposed.items[k]].animate))
      => ret.ret = Proposed.items

(***************************************************************************)
(* The query engine's specification: a parsed document, then one call of   *)
(* AWE_Info on it.                                                         *)
(***************************************************************************)
InitQuery ==
    /\ doc \in UNION { QueryDocs(n) : n \in 0..MaxQueryLen }
    /\ ext = docExt(doc)
    /\ op = "none"
    /\ args = NoArgs
    /\ ret = NoRet

AWE_InfoCall ==
    /\ op = "none"
    /\ \E q \in Queries :
         \E r \in {AWE_Info(doc, ext, q.infoType, q.indicator, q.filters,
                            q.transformations, q.summaryType)} :
             /\ op' = "AWE_Info"
             /\ args' = q
             /\ ret' = [raised |-> r.raised, printed |-> r.printed,
                        value |-> r.value, baseInfo |-> r.baseInfo,
                        built |-> r.built]
             /\ ext' = r.x
    /\ UNCHANGED doc

NextQuery == AWE_InfoCall

SpecQuery == InitQuery /\ [][NextQuery]_vars

(***************************************************************************)
(* Claims about AWE_Info.                                                  *)
(***************************************************************************)
Queried == op = "AWE_Info"
Returned == ret.raised = NoFault

\* the indices of the tokens whose records a Token query kept
Kept(baseInfo) == {baseInfo[k].tokenIdx : k \in DOMAIN baseInfo}

\* the query of args with the filter list f in place of its own
WithFilters(f) ==
    AWE_Info(doc, ext, args.infoType, args.indicator, V_list(f),
             args.transformations, args.summaryType)

\* C7: in a Token query with a list of two filters, where the query and the
\* queries with each of the filters alone return, the records kept are the
\* records that both filters keep (a record is dropped if and only if one
\* of the filters drops it), and the query with the filters in the other
\* order keeps the same records.
C7_DropIffFailsAny ==
    (/\ Queried
     /\ args.infoType = S.Token
     /\ args.filters.type = "list"
     /\ Len(args.filters.l) = 2
     /\ Returned
     /\ WithFilters(<<args.filters.l[1]>>).raised = NoFault
     /\ WithFilters(<<args.filters.l[2]>>).raised = NoFault)
    => /\ Kept(ret.baseInfo)
            = Kept(WithFilters(<<args.filters.l[1]>>).baseInfo)
              \cap Kept(WithFilters(<<args.filters.l[2]>>).baseInfo)
       /\ LET swapped == WithFilters(<<args.filters.l[2], args.filters.l[1]>>)
          IN  swapped.raised = NoFault
              /\ Kept(swapped.baseInfo) = Kept(ret.baseInfo)

\* the spans of ret.baseInfo that hold token i
SpansOf(i) ==
    {k \in DOMAIN ret.baseInfo :
        ret.baseInfo[k].startToken <= i /\ i <= ret.baseInfo[k].endToken}

DelimiterQuery ==
    /\ Queried
    /\ args.infoType = S.Doc
    /\ startsWith(args.indicator, S.delimiter_)
    /\ Len(args.indicator) = Len(S.delimiter_) + 1
    /\ args.transformations = <<>>

\* C8: the spans of a Doc query named delimiter_<c>, in their order, hold
\* every token of the document exactly once: each token lies in one span
\* and in no other, and each span starts after the one before it ends.
C8_SpansCoverOnce ==
    DelimiterQuery
    => /\ Returned
       /\ \A i \in DOMAIN doc : Cardinality(SpansOf(i)) = 1
       /\ \A k \in 1..(Len(ret.baseInfo) - 1) :
             ret.baseInfo[k + 1].startToken = ret.baseInfo[k].endToken + 1

\* every character of s is of [A-Za-z0-9_]
wordOnly(s) ==
    \A k \in 1..Len(s) : isAlphaChar(s[k]) \/ isDigitChar(s[k]) \/ s[k] = "_"

\* C9: a Token or Doc query whose indicator is not made of characters of
\* [A-Za-z0-9_] only (and is not the name delimiter_<c> of a segmentation)
\* fails, for every document, with the fault 'Invalid indicator', and no
\* token record has been made when it fails.
C9_IndicatorValidated ==
    (/\ Queried
     /\ args.infoType \in {S.Token, S.Doc}
     /\ ~wordOnly(args.indicator)
     /\ ~startsWith(args.indicator, S.delimiter_))
    => /\ ~Returned
       /\ ret.printed = "Invalid indicator"
       /\ ret.built = 0

\* C10: when a query fails on an invalid indicator, filter, transformation
\* or summary function, the error that reaches the caller of AWE_Info is
\* the error of that fault, and so tells the four faults from each other
\* and from the error of an unexpected fault.
C10_FaultsDistinguishable ==
    (/\ Queried
     /\ ret.printed \in {"Invalid indicator", "Invalid filter",
                         "Invalid transformation",
                         "Invalid summary function"})
    => /\ ret.raised = ret.printed
       /\ ret.raised # "error in code"

Survivors ==
    {i \in DOMAIN doc :
        ~applyTokenFilters(doc, i,
                           newTokenEntry(args.indicator, doc, i, V_None).entry,
                           args.filters.l).b}

TotalQuery ==
    /\ Queried
    /\ args.infoType = S.Token
    /\ args.indicator \in built_in_attributes \cup token_extensions
    /\ args.summaryType = V_str(S.total)
    /\ args.filters.type = "list"
    /\ args.transformations = <<>>

\* C12: a Token query with a valid indicator and the summary 'total' that
\* returns, returns the number of the tokens whose records the filters
\* keep; without filters it returns, for every document and for the empty
\* one, and the number is that of the tokens of the document.
C12_TotalCountsSurvivors ==
    TotalQuery
    => /\ Returned => ret.value = V_int(Cardinality(Survivors))
       /\ args.filters.l = <<>>
            => Returned /\ ret.value = V_int(DocLen(doc))

\* a total of fewer records than the document has tokens
C12_Witness ==
    /\ TotalQuery
    /\ Returned
    /\ args.filters.l # <<>>
    /\ ret.value.n > 0
    /\ ret.value.n < DocLen(doc)

(***************************************************************************)
(* The tree utilities (getHead, getDepth, getAdjustedDepth, tensed_clause, *)
(* isRoot, getSubject, getObject, getDative).  Their argument is a token   *)
(* of the document or None; reading an attribute of None is Python's       *)
(* AttributeError.  A utility that can raise returns [fault, value].       *)
(***************************************************************************)
\* tok.ancestors: the head of t, its head, ... up to the root, nearest first
ancestors(d, t) ==
    LET up[x \in DOMAIN d, fuel \in 0..DocLen(d)] ==
            IF fuel = 0 \/ d[x].head = x THEN <<>>
            ELSE <<d[x].head>> \o up[d[x].head, fuel - 1]
    IN  up[t, DocLen(d)]

getHead(d, tok) ==
    IF tok # None /\ ancestors(d, tok) # <<>> THEN Head(ancestors(d, tok))
    ELSE None

getDepth(d, tok) ==
    IF tok # None THEN Len(ancestors(d, tok)) ELSE 0

getAdjustedDepth(d, tok) ==
    LET depth == getDepth(d, tok)
        ancs == ancestors(d, tok)
        ClausalDeps == {"advcl", "ccomp", "acl", "relcl"}
        \* the three adjustments made for the ancestor anc (lines 425-441)
        step(anc) ==
            (IF tok < anc /\ d[anc].dep_ # "csubj" /\ d[tok].dep_ # "csubj"
             THEN 1 ELSE 0)
            - (IF d[tok].dep_ \in ClausalDeps THEN 1 ELSE 0)
            - (IF d[anc].dep_ \in ClausalDeps THEN 1 ELSE 0)
        loop[k \in 0..Len(ancs)] ==
            IF k = 0 THEN 0 ELSE loop[k - 1] + step(ancs[k])
        head == getHead(d, tok)
        mark == IF d[tok].dep_ = "mark" /\ head # None
                   /\ d[head].dep_ = "csubj"
                THEN 1 ELSE 0
    IN  IF tok = None
        THEN [fault |-> "AttributeError", value |-> None]
        ELSE [fault |-> NoFault,
              value |-> depth - (loop[Len(ancs)] + mark)]

\* the lemmas of the verbs that take a bare infinitive (lines 613-633)
takesBareInfinitive(d, item) ==
    IF item = None THEN FALSE
    ELSE d[item].lemma_ \in {
        <<"m","a","k","e">>, <<"h","a","v","e">>, <<"h","e","l","p">>,
        <<"l","e","t">>, <<"g","o">>, <<"b","i","d">>, <<"f","e","e","l">>,
        <<"h","e","a","r">>, <<"s","e","e">>, <<"w","a","t","c","h">>,
        <<"n","o","t","i","c","e">>, <<"o","b","s","e","r","v","e">>,
        <<"o","v","e","r","h","e","a","r">>, <<"m","o","n","i","t","o","r">>,
        <<"p","e","r","c","e","i","v","e">>,
        <<"c","o","n","s","i","d","e","r">>,
        <<"p","r","o","c","l","a","i","m">>, <<"d","e","c","l","a","r","e">>}

\* a child that is the infinitival marker (line 658)
infinitivalMarker_never(child) == FALSE

infinitivalMarker(child) == child.dep_ = "aux" /\ child.tag_ = "TO"

tensed_clause(d, tok) ==
    LET kids == children(d, tok)
        \* tag_.startswith('HV') / ('DO') over the tags of the tag set, and
        \* 'Tense=' in str(morph) over the values of the feature
        tenseTag(t) ==
            \/ t.tag_ \in {"MD", "BEZ", "BEM", "BER"}
            \/ t.tag_ \in {"HV", "HVD", "HVG", "HVN", "HVZ"}
            \/ t.tag_ \in {"DO", "DOD", "DOZ"}
            \/ t.morph \cap {"Tense=Past", "Tense=Pres", "Tense=Fut",
                             "Tense=Imp", "Tense=Pqp"} # {}
        tenseLemmas == {<<"a","m">>, <<"a","r","e">>, <<"i","s">>,
                        <<"w","a","s">>, <<"w","e","r","e">>,
                        <<"h","a","v","e">>, <<"h","a","s">>, <<"d","o">>,
                        <<"d","o","e","s">>}
        markers == {k \in 1..Len(kids) : infinitivalMarker(d[kids[k]])}
        infinitive == markers # {}
        \* the children the loop visits: up to the break of line 661
        last == IF infinitive
                THEN CHOOSE k \in markers : \A j \in markers : k <= j
                ELSE Len(kids)
        seen == {d[kids[k]] : k \in 1..last}
        hasSubj == \E c \in seen :
                      c.dep_ \in {"nsubj", "nsubjpass", "csubj",
                                  "csubjpass", "expl"}
        hasTenseMarker ==
            \/ ~infinitive
               /\ \E c \in seen : /\ c.dep_ = "aux"
                                  /\ tenseTag(c) \/ c.lemma_ \in tenseLemmas
            \/ tenseTag(d[tok])
        head == getHead(d, tok)
        t == d[tok]
        value ==
            IF infinitive THEN FALSE
            ELSE IF ~hasTenseMarker /\ ~hasSubj /\ isRoot(d, tok)
                    /\ t.text # t.lemma_ THEN TRUE
            ELSE IF ~hasSubj THEN FALSE
            ELSE IF ~hasTenseMarker /\ t.tag_ # "VBZ"
                    /\ lower(t.text) # t.lemma_ THEN FALSE
            ELSE IF head # None /\ takesBareInfinitive(d, head)
                    /\ lower(t.text) = t.lemma_ /\ hasSubj THEN FALSE
            ELSE TRUE
    IN  IF tok = None
        THEN [fault |-> "AttributeError", value |-> FALSE]
        ELSE [fault |-> NoFault, value |-> value]

getSubject(d, tok) ==
    LET kids == children(d, tok)
        hits == {k \in 1..Len(kids) :
                    /\ d[kids[k]].tag_ # "_SP"
                    /\ d[kids[k]].dep_ \in {"nsubj", "nsubjpass", "poss",
                                            "csubj", "csubjpass", "attr"}}
    IN  IF tok = None
        THEN [fault |-> "AttributeError", value |-> None]
        ELSE [fault |-> NoFault,
              value |-> IF hits = {} THEN None
                        ELSE kids[CHOOSE k \in hits : \A j \in hits : k <= j]]

getObject(d, tok) ==
    LET kids == children(d, tok)
        hits == {k \in 1..Len(kids) :
                    d[kids[k]].tag_ # "_SP" /\ d[kids[k]].dep_ = "dobj"}
    IN  IF tok = None
        THEN [fault |-> "AttributeError", value |-> None]
        ELSE [fault |-> NoFault,
              value |-> IF hits = {} THEN None
                        ELSE kids[CHOOSE k \in hits : \A j \in hits : k <= j]]

RECURSIVE getDative(_, _)
getDative(d, tok) ==
    LET kids == children(d, tok)
        W_to == <<"t","o">>
        W_for == <<"f","o","r">>
        direct(c) == c.dep_ = "iobj" \/ (c.dep_ = "dative" /\ c.tag_ # "IN")
        through(c) == \/ c.dep_ = "dative"
                      \/ c.dep_ = "prep" /\ c.lemma_ = W_to
                      \/ c.dep_ = "prep" /\ c.lemma_ = W_for
        hits == {k \in 1..Len(kids) :
                    LET c == d[kids[k]]
                    IN  direct(c) \/ through(c) \/ c.dep_ = "pobj"}
        first == kids[CHOOSE k \in hits : \A j \in hits : k <= j]
    IN  IF tok = None
        THEN [fault |-> "AttributeError", value |-> None]
        ELSE IF hits = {} THEN [fault |-> NoFault, value |-> None]
        ELSE IF direct(d[first]) THEN [fault |-> NoFault, value |-> first]
        ELSE IF through(d[first]) THEN getDative(d, first)
        ELSE [fault |-> NoFault, value |-> first]

(***************************************************************************)
(* The documents of the tree utilities' specification: every sequence of   *)
(* at most MaxTreeLen words of TreeLexicon under every dependency forest   *)
(* (each token headed by any token, a root by itself, no cycle).           *)
(***************************************************************************)
TreeLexicon == {
    Word(<<"t","o">>, <<"t","o">>, "PART", "TO", "aux", {}, FALSE),
    Word(<<"w","i","l","l">>, <<"w","i","l","l">>, "AUX", "MD", "aux", {"VerbForm=Fin"}, FALSE),
    Word(<<"T","h","e","y">>, <<"t","h","e","y">>, "PRON", "PRP", "nsubj", {"Number=Plur"}, TRUE),
    Word(<<"g","o">>, <<"g","o">>, "VERB", "VB", "advcl", {"VerbForm=Inf"}, FALSE),
    Word(<<"s","a","w">>, <<"s","e","e">>, "VERB", "VBD", "ccomp", {"Tense=Past"}, FALSE),
    Word(<<"r","u","n","n","i","n","g">>, <<"r","u","n">>, "VERB", "VBG", "csubj", {"VerbForm=Ger"}, FALSE),
    Word(<<"t","h","a","t">>, <<"t","h","a","t">>, "SCONJ", "IN", "mark", {}, FALSE),
    Word(<<"k","e","y","s">>, <<"k","e","y">>, "NOUN", "NNS", "dobj", {"Number=Plur"}, FALSE),
    Word(<<"f","o","r">>, <<"f","o","r">>, "ADP", "IN", "prep", {}, FALSE),
    Word(<<"h","i","m">>, <<"h","e">>, "PRON", "PRP", "pobj", {"Number=Sing"}, TRUE) }

TreeDocs(n) ==
    LET forests ==
            { h \in [0..(n - 1) -> 0..(n - 1)] :
                \A i \in 0..(n - 1) :
                    \/ h[i] = i
                    \/ h[h[i]] = h[i]
                    \/ h[h[i]] # i /\ h[h[h[i]]] = h[h[i]] }
    IN  { [i \in 0..(n - 1) |-> Token(wh[1][i], i, wh[2][i])] :
            wh \in [0..(n - 1) -> TreeLexicon] \X forests }

InitTree ==
    /\ doc \in UNION { TreeDocs(n) : n \in 1..MaxTreeLen }
    /\ ext = docExt(doc)
    /\ op = "none"
    /\ args = NoArgs
    /\ ret = NoRet

\* the argument of a tree utility is a token of the document, or None
getHeadCall ==
    /\ op = "none"
    /\ \E tok \in DOMAIN doc \cup {None} :
         /\ op' = "getHead"
         /\ args' = [tok |-> tok]
         /\ ret' = [fault |-> NoFault, value |-> getHead(doc, tok)]
    /\ UNCHANGED <<doc, ext>>

getDepthCall ==
    /\ op = "none"
    /\ \E tok \in DOMAIN doc \cup {None} :
         /\ op' = "getDepth"
         /\ args' = [tok |-> tok]
         /\ ret' = [fault |-> NoFault, value |-> getDepth(doc, tok)]
    /\ UNCHANGED <<doc, ext>>

getAdjustedDepthCall ==
    /\ op = "none"
    /\ \E tok \in DOMAIN doc \cup {None} :
         /\ op' = "getAdjustedDepth"
         /\ args' = [tok |-> tok]
         /\ ret' = getAdjustedDepth(doc, tok)
    /\ UNCHANGED <<doc, ext>>

\* isRoot reads token.head first (line 970)
isRootCall ==
    /\ op = "none"
    /\ \E tok \in DOMAIN doc \cup {None} :
         /\ op' = "isRoot"
         /\ args' = [tok |-> tok]
         /\ ret' = IF tok = None
                   THEN [fault |-> "AttributeError", value |-> FALSE]
                   ELSE [fault |-> NoFault, value |-> isRoot(doc, tok)]
    /\ UNCHANGED <<doc, ext>>

tensed_clauseCall ==
    /\ op = "none"
    /\ \E tok \in DOMAIN doc \cup {None} :
         /\ op' = "tensed_clause"
         /\ args' = [tok |-> tok]
         /\ ret' = tensed_clause(doc, tok)
    /\ UNCHANGED <<doc, ext>>

getSubjectCall ==
    /\ op = "none"
    /\ \E tok \in DOMAIN doc \cup {None} :
         /\ op' = "getSubject"
         /\ args' = [tok |-> tok]
         /\ ret' = getSubject(doc, tok)
    /\ UNCHANGED <<doc, ext>>

getObjectCall ==
    /\ op = "none"
    /\ \E tok \in DOMAIN doc \cup {None} :
         /\ op' = "getObject"
         /\ args' = [tok |-> tok]
         /\ ret' = getObject(doc, tok)
    /\ UNCHANGED <<doc, ext>>

getDativeCall ==
    /\ op = "none"
    /\ \E tok \in DOMAIN doc \cup {None} :
         /\ op' = "getDative"
         /\ args' = [tok |-> tok]
         /\ ret' = getDative(doc, tok)
    /\ UNCHANGED <<doc, ext>>

NextTree ==
    \/ getHeadCall
    \/ getDepthCall
    \/ getAdjustedDepthCall
    \/ isRootCall
    \/ tensed_clauseCall
    \/ getSubjectCall
    \/ getObjectCall
    \/ getDativeCall

SpecTree == InitTree /\ [][NextTree]_vars

(***************************************************************************)
(* Claims about the tree utilities.                                        *)
(***************************************************************************)
\* the call of the utility f on a token has returned
OnToken(f) == op = f /\ args.tok # None

\* C13: for every token none of whose ancestors carries a clausal
\* dependency label (advcl, ccomp, acl, relcl), getAdjustedDepth returns at
\* most getDepth + 1.
C13_AdjustmentBounded ==
    ( /\ OnToken("getAdjustedDepth")
      /\ \A k \in 1..Len(ancestors(doc, args.tok)) :
            doc[ancestors(doc, args.tok)[k]].dep_
                \notin {"advcl", "ccomp", "acl", "relcl"} )
    => /\ ret.fault = NoFault
       /\ ret.value <= getDepth(doc, args.tok) + 1

\* the token of the call has a child that is the infinitival marker
HasInfinitivalChild ==
    \E j \in DOMAIN doc :
        /\ j # args.tok
        /\ doc[j].head = args.tok
        /\ doc[j].dep_ = "aux"
        /\ doc[j].tag_ = "TO"

\* C14: tensed_clause is false for every token that has an auxiliary child
\* tagged as the infinitival marker (dep_ aux, tag_ TO), whatever its other
\* children and its own morphology are and whether or not it is a root.
C14_InfinitiveNotTensed ==
    (OnToken("tensed_clause") /\ HasInfinitivalChild)
    => ret.fault = NoFault /\ ret.value = FALSE

\* a root of finite morphology with a subject and the marker after it
C14_Witness ==
    /\ OnToken("tensed_clause")
    /\ HasInfinitivalChild
    /\ isRoot(doc, args.tok)
    /\ "Tense=Past" \in doc[args.tok].morph
    /\ \E j \in DOMAIN doc :
          /\ doc[j].head = args.tok
          /\ doc[j].dep_ = "nsubj"
          /\ \E k \in DOMAIN doc :
                k > j /\ doc[k].head = args.tok /\ doc[k].tag_ = "TO"
    /\ ret.value = FALSE

\* C15: every tree utility (getHead, getDepth, getAdjustedDepth, isRoot,
\* tensed_clause, getSubject, getObject, getDative) called with None
\* returns None, False or 0 and does not raise.
C15_TotalOverNone ==
    (op \in {"getHead", "getDepth", "getAdjustedDepth", "isRoot",
             "tensed_clause", "getSubject", "getObject", "getDative"}
     /\ args.tok = None)
    => /\ ret.fault = NoFault
       /\ ret.value = CASE op \in {"isRoot", "tensed_clause"} -> FALSE
                         [] op \in {"getDepth", "getAdjustedDepth"} -> 0
                         [] OTHER -> None

(***************************************************************************)
(* Claims about AWE_Info, continued.                                       *)
(***************************************************************************)
\* the query of args has built its table of records without a fault, and
\* the table is empty
EmptyTable ==
    /\ Queried
    /\ reMatchWord(args.indicator)
    /\ args.summaryType \in
          {V_None, V_str(S.empty)}
          \cup { V_str(s) : s \in {S.counts, S.total, S.uniq, S.totaluniq,
                                  S.proportion, S.percent, S.mean,
                                  S.median, S.stdev, S.max, S.min} }
    /\ ret.baseInfo = <<>>
    /\ \/ /\ args.infoType = S.Token
          /\ tokenLoop(doc, args.indicator, args.filters,
                       args.transformations, 0, <<>>, 0).fault = NoFault
       \/ /\ args.infoType = S.Doc
          /\ args.transformations = <<>>
          /\ createSpanInfo(args.indicator, doc, ext).fault = NoFault

\* C16: when filtering leaves no records, or the document is empty, every
\* recognized summary kind returns: the empty object, zero or None; none
\* fails, and proportion and percent do not divide by a token count of zero.
C16_EmptyTableSummarized ==
    EmptyTable
    => /\ Returned
       /\ ret.printed # "ZeroDivisionError"
       /\ ret.value \in {V_json(<<>>), V_int(0), V_None}

\* a percent over a document whose tokens the filter has all dropped
C16_Witness ==
    /\ EmptyTable
    /\ DocLen(doc) > 0
    /\ args.filters.l # <<>>
    /\ args.summaryType = V_str(S.percent)
    /\ ret.value = V_None

\* the record of token i as newTokenEntry makes it for the query of args
EntryOf(i) == newTokenEntry(args.indicator, doc, i, V_None).entry

\* C17: in a Token query, the transformation 'log' on a record whose value
\* is present but is no number (a string that is not the text of one) makes
\* the query fail with the invalid-transformation error, whereas 'sqrt' on
\* a negative number leaves the value and the name of the record as they
\* were and does not fail.
C17_LogRejectsSqrtSkips ==
    (Queried /\ args.infoType = S.Token /\ args.filters = V_list(<<>>)
     /\ args.transformations # <<>>)
    => /\ ( /\ Head(args.transformations) = S.log
            /\ \E i \in DOMAIN doc :
                  /\ EntryOf(i).value.type = "str"
                  /\ ~isNumeral(EntryOf(i).value.s) )
          => ret.printed = "Invalid transformation"
       /\ ( /\ args.transformations[Len(args.transformations)] = S.sqrt
            /\ Returned )
          => \A k \in DOMAIN ret.baseInfo :
                LET before ==
                        applyTokenTransformations(doc, EntryOf(k - 1), k - 1,
                            SubSeq(args.transformations, 1,
                                   Len(args.transformations) - 1)).entry
                IN  ( /\ before.value.type \in {"int", "float"}
                      /\ lessThanZero(before.value).b )
                    => /\ ret.baseInfo[k].value = before.value
                       /\ ret.baseInfo[k].name = before.name

\* a Token query with one filter, whose function is one of the five
\* relational operators, over a document with a token
RelationalQuery ==
    /\ Queried
    /\ args.infoType = S.Token
    /\ args.indicator \in built_in_attributes
    /\ args.filters.type = "list"
    /\ Len(args.filters.l) = 1
    /\ args.filters.l[1][1] \in {S.eq, S.gt, S.lt, S.ge, S.le}
    /\ DocLen(doc) > 0

\* C18: each of ==, >, <, >= and <= is a supported filter: on records of a
\* numeric or string value the query is not rejected with the
\* invalid-filter error, and on records whose values and the accepted value
\* are numerals the records kept are those for which the comparison holds.
C18_RelationalSupported ==
    RelationalQuery
    => LET function == args.filters.l[1][1]
           returnValue == args.filters.l[1][2][1]
           holds(a, b) == CASE function = S.eq -> a = b
                            [] function = S.gt -> a > b
                            [] function = S.lt -> a < b
                            [] function = S.ge -> a >= b
                            [] function = S.le -> a <= b
       IN  /\ (\A i \in DOMAIN doc :
                  EntryOf(i).value.type \in {"int", "float", "str"})
              => ret.printed # "Invalid filter"
           /\ (\A i \in DOMAIN doc :
                  /\ EntryOf(i).value.type = "str"
                  /\ isNumeral(EntryOf(i).value.s))
              => /\ Returned
                 /\ Kept(ret.baseInfo)
                    = {i \in DOMAIN doc :
                          holds(natOfStr(EntryOf(i).value.s),
                                natOfStr(returnValue))}

\* C19: a filter whose function is no relational operator, not 'not', no
\* built-in flag, no built-in string property and no registered extension
\* attribute makes the query fail with the invalid-filter error, for every
\* indicator (those of a boolean value too) and every accepted value
\* ('True' and 'False' too).  The filter is the only one of the query and
\* the document has a token to apply it to.
C19_UnknownFilterRejected ==
    ( /\ Queried
      /\ args.infoType = S.Token
      /\ args.indicator \in built_in_attributes \cup built_in_flags
      /\ args.filters.type = "list"
      /\ Len(args.filters.l) = 1
      /\ args.filters.l[1][1] \notin
            {S.eq, S.gt, S.lt, S.ge, S.le, S.le_indented, S.not}
            \cup built_in_flags \cup built_in_string_functions
            \cup token_extensions
      /\ DocLen(doc) > 0 )
    => /\ ~Returned
       /\ ret.printed = "Invalid filter"

(***************************************************************************)
(* The backward scan's specification: a parsed document of MaxScanLen      *)
(* words of ScanLexicon, then one call of ResolveReference on one of its   *)
(* plural pronouns, with coreference data, any answer of the coreference   *)
(* service, any probability service and no speaker or addressee.           *)
(***************************************************************************)
ScanLexicon ==
    { w \in Lexicon :
        w.text \in {<<"T","h","e","y">>, <<"S","h","e">>,
                    <<"M","a","r","i","a">>, <<"k","e","y","s">>,
                    <<"s","a","w">>} }

InitScan ==
    /\ doc \in { [i \in 0..(MaxScanLen - 1) |->
                    Token(words[i], i, headOf(words, i))] :
                 words \in [0..(MaxScanLen - 1) -> ScanLexicon] }
    /\ ext = docExt(doc)
    /\ op = "none"
    /\ args = NoArgs
    /\ ret = NoRet

PluralReferenceCall ==
    /\ op = "none"
    /\ \E t \in {i \in DOMAIN doc : lower(doc[i].text) \in PluralForms} :
         \E e \in CorefChains(doc, t) \X WordseqProbClients :
            /\ op' = "ResolveReference"
            /\ args' = Environment(t, e[1], e[2], NoAttr, NoAttr)
            /\ ret' = ResolveReference(doc, e[1], e[2], t, NoAttr, NoAttr)
    /\ UNCHANGED <<doc, ext>>

NextScan == PluralReferenceCall

SpecScan == InitScan /\ [][NextScan]_vars

(***************************************************************************)
(* Claims about the backward scan.                                         *)
(***************************************************************************)
\* a plural pronoun was resolved whose proposal holds an inanimate token,
\* with the probability service answering and scoring the animate
\* placeholder above the inanimate one
AnimateScoredHigher ==
    /\ Resolved
    /\ TargetIsPlural
    /\ NoOverride
    /\ args.coref.present
    /\ Proposed.kind # "None"
    /\ \E k \in DOMAIN Proposed.items : ~doc[Proposed.items[k]].animate
    /\ args.wspc.connect
    /\ args.wspc.answers
    /\ args.wspc.res2 > args.wspc.res1

\* the backward scan from the pronoun, with the animate tokens of the
\* proposal as the antecedents it starts from
ScanFound ==
    LET animate(x) == doc[x].animate
    IN  scanForAnimatePotentialAntecedents(doc, args.coref, args.tok,
            SelectSeq(Proposed.items, animate), FALSE).ret

\* C20 as stated: the proposed antecedents are discarded; the result is
\* what the backward scan finds and holds none of the proposed indices.
C20_ProposalDiscarded ==
    AnimateScoredHigher
    => /\ ret.ret = ScanFound
       /\ \A k \in DOMAIN Proposed.items :
             ~Contains(ret.ret, Proposed.items[k])

\* C20: the inanimate proposed antecedents are discarded and the animate
\* ones are the alternates the backward scan starts from: the result is
\* what that scan finds, every token of it is animate or the pronoun
\* itself, and it holds none of the inanimate proposed indices.
C20_InanimateDiscarded ==
    AnimateScoredHigher
    => /\ ret.ret = ScanFound
       /\ \A k \in DOMAIN ret.ret :
             ret.ret[k] = args.tok \/ doc[ret.ret[k]].animate
       /\ \A k \in DOMAIN Proposed.items :
             ~doc[Proposed.items[k]].animate
                => ~Contains(ret.ret, Proposed.items[k])

\* the scan has returned an animate proposed antecedent with a noun it found
C20_Witness ==
    /\ AnimateScoredHigher
    /\ Len(ret.ret) = 2
    /\ Contains(Proposed.items, ret.ret[1])
    /\ ~Contains(Proposed.items, ret.ret[2])
    /\ ret.ret[2] < args.tok

(***************************************************************************)
(* Claims about the backward scan, under the resolver's specifications.    *)
(***************************************************************************)
\* a plural pronoun was resolved with coreference data, nothing proposed
\* and no override: the result is that of the backward scan
ScannedFromNothing ==
    /\ Resolved
    /\ TargetIsPlural
    /\ NoOverride
    /\ args.coref.present
    /\ Proposed = NoProposal

\* C21: the backward scan walks every token left of the pronoun down to the
\* start of the document: when the token at index 0 is an animate noun of
\* plural number and no token between it and the pronoun is a pronoun or an
\* animate noun (no other rule fires earlier), the scan returns [0] and not
\* the pronoun's own index.
C21_ScanReachesStart ==
    ( /\ ScannedFromNothing
      /\ args.tok > 0
      /\ doc[0].pos_ \in {"NOUN", "PROPN"}
      /\ doc[0].animate
      /\ "Number=Plur" \in doc[0].morph
      /\ \A i \in 1..(args.tok - 1) :
            /\ doc[i].pos_ # "PRON"
            /\ ~(doc[i].pos_ \in {"NOUN", "PROPN"} /\ doc[i].animate) )
    => ret.ret = <<0>>

(***************************************************************************)
(* The backward scan, one pass of its loop at a time: a parsed document of *)
(* MaxLoopLen words, then a call of the scan from one of its plural        *)
(* pronouns with the animate tokens of a proposal, then the passes of the  *)
(* loop until the scan returns.  While the scan runs ret holds its local   *)
(* variables pos and altAntecedents; at the end ret.ret is the list        *)
(* returned.  The scheduler is the Python interpreter: a loop that can     *)
(* make a pass makes it (weak fairness of ScanPass).                       *)
(***************************************************************************)
\* a slip in lines 1246-1249: the handler leaves pos where it is
afterRaise_stays(pos) == pos

\* lines 1246-1249: the handler of the loop moves one token to the left
afterRaise(pos) == pos - 1

\* one pass of the while loop, lines 1205-1251, at position pos with the
\* accumulator altAntecedents: the list returned, or the next position
scanPass(c, d, coref, pos, altAntecedents) ==
    LET Return(list) == [done |-> TRUE, ret |-> list, pos |-> pos,
                         altAntecedents |-> altAntecedents]
        Go(p, alt) == [done |-> FALSE, ret |-> <<>>, pos |-> p,
                       altAntecedents |-> alt]
        t == d[pos]
        rest(alt) ==
            IF Len(collapse(d, alt)) > 1
            THEN [Return(collapse(d, alt))
                    EXCEPT !.altAntecedents = collapse(d, alt)]
            ELSE Go(pos - 1, collapse(d, alt))
        Resolution == coref.resolve[pos]
        hit == firstAnimateHit(d, Resolution.items, altAntecedents)
    IN  IF ~(pos > 0) THEN Return(<<c.tok>>)
        ELSE IF t.pos_ = "PRON"
        THEN IF Resolution.kind = "Raise"
             THEN Go(afterRaise(pos), altAntecedents)
             ELSE IF Resolution.kind = "List" /\ hit # None
             THEN Return(<<hit>>)
             ELSE IF cCommand(d, c.loc, pos) THEN Return(<<pos>>)
             ELSE rest(altAntecedents)
        ELSE IF /\ t.pos_ \in {"NOUN", "PROPN"}
                /\ t.animate
                /\ ~Contains(c.antecedentlocs, pos)
                /\ ~Contains(c.blockedLocs, pos)
                /\ lower(t.text) \notin c.blockedLex
        THEN IF ~Contains(altAntecedents, pos)
             THEN IF t.animate /\ "Number=Plur" \in t.morph
                  THEN Return(<<pos>>)
                  ELSE rest(Append(altAntecedents, pos))
             ELSE rest(altAntecedents)
        ELSE rest(altAntecedents)

\* the documents of the loop's specification: MaxLoopLen words, among them
\* two spellings of one name
LoopLexicon ==
    { w \in Lexicon :
        w.text \in {<<"T","h","e","y">>, <<"M","a","r","i","a">>,
                    <<"M","A","R","I","A">>, <<"s","a","w">>} }

InitScanLoop ==
    /\ doc \in { [i \in 0..(MaxLoopLen - 1) |->
                    Token(words[i], i, headOf(words, i))] :
                 words \in [0..(MaxLoopLen - 1) -> LoopLexicon] }
    /\ ext = docExt(doc)
    /\ op = "none"
    /\ args = NoArgs
    /\ ret = NoRet

\* lines 1191-1204: the call, up to the loop.  The antecedents passed are
\* animate tokens, as ResolveReference passes them (lines 1299-1304); the
\* coreference service answers for a scanned pronoun with nothing, with
\* one token, or by raising.
ScanEnter ==
    /\ op = "none"
    /\ \E t \in {i \in DOMAIN doc : lower(doc[i].text) \in PluralForms} :
         \E antecedentlocs \in
                distinctLists({i \in DOMAIN doc \ {t} : doc[i].animate},
                              MaxProposal) :
         \E g \in [Scanned(doc, t) ->
                     {NoProposal, RaisingLookup}
                     \cup {Proposal(<<j>>) : j \in DOMAIN doc}] :
            LET inanimate(x) == ~doc[x].animate
                blocked == SelectSeq(antecedentlocs, inanimate)
            IN  /\ \A i \in DOMAIN g : g[i] # Proposal(<<i>>)
                /\ op' = "scan"
                /\ args' = [tok |-> t,
                            loc |-> IF antecedentlocs = <<>> THEN t
                                    ELSE antecedentlocs[Len(antecedentlocs)],
                            coref |-> Chains(doc, t, Proposal(antecedentlocs),
                                             g),
                            antecedentlocs |-> antecedentlocs,
                            blockedLocs |-> blocked,
                            blockedLex |->
                                {lower(doc[blocked[k]].text) :
                                    k \in 1..Len(blocked)}]
                /\ ret' = [ret |-> <<>>, pos |-> t - 1,
                           altAntecedents |-> antecedentlocs]
    /\ UNCHANGED <<doc, ext>>

\* lines 1205-1251: one pass of the loop, or the return after it
ScanPass ==
    /\ op = "scan"
    /\ \E r \in {scanPass(args, doc, args.coref, ret.pos,
                          ret.altAntecedents)} :
         /\ op' = IF r.done THEN "scanned" ELSE "scan"
         /\ ret' = [ret |-> r.ret, pos |-> r.pos,
                    altAntecedents |-> r.altAntecedents]
    /\ UNCHANGED <<doc, ext, args>>

NextScanLoop == ScanEnter \/ ScanPass

SpecScanLoop ==
    InitScanLoop /\ [][NextScanLoop]_vars /\ WF_vars(ScanPass)

\* C22: the backward scan terminates for every document and start
\* position: every pass of its loop that does not return, one in which a
\* lookup raises and is swallowed too, moves the position strictly to the
\* left; the scan does not call ResolveReference; a scan that has started
\* returns, and what it returns is a hit left of the pronoun, the
\* accumulated alternates, or the pronoun's own index.
C22_ScanTerminates ==
    /\ [][op = "scan" /\ op' = "scan" => ret'.pos < ret.pos]_vars
    /\ [][op = "scan" => op' \in {"scan", "scanned"}]_vars
    /\ (op = "scan") ~> (op = "scanned")
    /\ [](op = "scanned"
            => \/ ret.ret = <<args.tok>>
               \/ Len(ret.ret) = 1 /\ ret.ret[1] \in DOMAIN doc
               \/ Len(ret.ret) > 1 /\ ret.ret = ret.altAntecedents)

\* a scan has returned the pronoun's own index after a lookup that raised
C22_Witness ==
    /\ op = "scanned"
    /\ ret.ret = <<args.tok>>
    /\ ret.pos = 0
    /\ \E i \in 1..(args.tok - 1) :
          doc[i].pos_ = "PRON" /\ args.coref.resolve[i].kind = "Raise"

\* the scan is at a pronoun whose lookup does not raise and that satisfies
\* the conditions of the c-command shortcut with a proposed antecedent
ShortcutApplies ==
    /\ op = "scan"
    /\ ret.pos > 0
    /\ doc[ret.pos].pos_ = "PRON"
    /\ args.coref.resolve[ret.pos].kind # "Raise"
    /\ \E k \in DOMAIN args.antecedentlocs :
          LET a == args.antecedentlocs[k]
          IN  /\ inSubtree(doc, a, doc[ret.pos].head)
              /\ doc[ret.pos].animate
              /\ getTensedVerbHead(doc, a) # getTensedVerbHead(doc, ret.pos)
              /\ \/ "Number=Plur" \in doc[ret.pos].morph
                 \/ lower(doc[ret.pos].text) \in {W_who, W_whom, W_whoever}

\* C23: the c-command shortcut comes before the pronoun-resolution rule
\* and considers every proposed antecedent: at a scanned pronoun that
\* satisfies its conditions with some proposed antecedent the scan returns
\* the index of that pronoun, whatever the coreference service resolves
\* the pronoun to.
C23_ShortcutFirst ==
    [][ShortcutApplies => op' = "scanned" /\ ret'.ret = <<ret.pos>>]_vars

\* C24: a list of accumulated alternates that the backward scan returns
\* holds no two indices whose tokens have the same capitalized text,
\* however many animate proposed antecedents the accumulator started from.
C24_AlternatesDistinct ==
    (op = "scanned" /\ Len(ret.ret) > 1)
    => \A j, k \in DOMAIN ret.ret :
          j # k => capitalize(doc[ret.ret[j]].text)
                   # capitalize(doc[ret.ret[k]].text)

\* the token of the call has a subject child
HasSubjectChild ==
    \E j \in DOMAIN doc :
        /\ j # args.tok
        /\ doc[j].head = args.tok
        /\ doc[j].dep_ \in {"nsubj", "nsubjpass", "csubj", "csubjpass", "expl"}

\* the tags and the morphology of a finite form (lines 684-690)
FiniteForm(t) ==
    \/ t.tag_ \in {"MD", "BEZ", "BEM", "BER", "HV", "HVD", "HVG", "HVN",
                   "HVZ", "DO", "DOD", "DOZ"}
    \/ \E f \in t.morph : f \in {"Tense=Past", "Tense=Pres", "Tense=Fut",
                                 "Tense=Imp", "Tense=Pqp"}

\* a finite tense marker on an auxiliary child or on the token of the call
HasTenseMarker ==
    \/ FiniteForm(doc[args.tok])
    \/ \E j \in DOMAIN doc :
          /\ j # args.tok
          /\ doc[j].head = args.tok
          /\ doc[j].dep_ = "aux"
          /\ \/ FiniteForm(doc[j])
             \/ doc[j].lemma_ \in {<<"a","m">>, <<"a","r","e">>, <<"i","s">>,
                                   <<"w","a","s">>, <<"w","e","r","e">>,
                                   <<"h","a","v","e">>, <<"h","a","s">>,
                                   <<"d","o">>, <<"d","o","e","s">>}

\* the imperative of lines 696-700
RootImperative ==
    /\ ~HasTenseMarker
    /\ ~HasSubjectChild
    /\ isRoot(doc, args.tok)
    /\ doc[args.tok].text # doc[args.tok].lemma_

\* the head of the token of the call takes a bare infinitive
BareInfinitiveComplement ==
    /\ getHead(doc, args.tok) # None
    /\ takesBareInfinitive(doc, getHead(doc, args.tok))

\* C25: for a token with no infinitival-marker child that is neither a root
\* imperative nor the complement of a head that takes a bare infinitive,
\* tensed_clause is true if and only if the token has a subject child and a
\* finite tense marker is present, on an auxiliary child or in the token's
\* own tag or morphology; a token with a subject but no tense marker is not
\* tensed.
C25_TensedIffSubjectAndMarker ==
    ( /\ OnToken("tensed_clause")
      /\ ~HasInfinitivalChild
      /\ ~RootImperative
      /\ ~BareInfinitiveComplement )
    => /\ ret.fault = NoFault
       /\ ret.value = (HasSubjectChild /\ HasTenseMarker)

\* the one filter of a Token query with a list of one filter
OneFilter == args.filters.l[1]

\* C26: a Token-query filter that names a registered derived boolean
\* attribute with the accepted value 'True' drops exactly the records of
\* the tokens whose attribute is False and keeps those whose attribute is
\* True (and the other way round for 'False'); a token whose attribute is
\* None passes the filter, and no error is raised.
C26_ExtensionFilterDrops ==
    ( /\ Queried
      /\ args.infoType = S.Token
      /\ args.indicator \in {S.pos_, S.is_alpha, S.text}
      /\ args.filters.type = "list"
      /\ Len(args.filters.l) = 1
      /\ OneFilter[1] \in {S.animate, S.vwp_speaker}
      /\ OneFilter[2] \in {<<S.True>>, <<S.False>>} )
    => /\ Returned
       /\ Kept(ret.baseInfo)
            = { i \in DOMAIN doc :
                  LET v == tokenExt(doc, i, OneFilter[1])
                  IN  \/ v.type = "NoneType"
                      \/ v.type = "bool" /\ v.b = (OneFilter[2] = <<S.True>>) }

\* the query of args issued again, on the document as the call has left it
Again ==
    AWE_Info(doc, ext, args.infoType, args.indicator, args.filters,
             args.transformations, args.summaryType)

\* C27: a Doc query on a registered span extension with a list of
\* transformations that is not empty does not change the name or the value
\* of the span records that the document holds, and the same query issued
\* again on the document returns the same result.
C27_QueryLeavesDocument ==
    ( /\ Queried
      /\ args.infoType = S.Doc
      /\ args.indicator = S.main_ideas
      /\ args.transformations # <<>> )
    => /\ DOMAIN ext[S.main_ideas] = DOMAIN docExt(doc)[S.main_ideas]
       /\ \A k \in DOMAIN ext[S.main_ideas] :
             /\ ext[S.main_ideas][k].name = docExt(doc)[S.main_ideas][k].name
             /\ ext[S.main_ideas][k].value
                    = docExt(doc)[S.main_ideas][k].value
       /\ Again.raised = ret.raised
       /\ Again.value = ret.value
       /\ Again.baseInfo = ret.baseInfo

\* C28: a filter (flag, ['True']) on a built-in flag keeps, in a Token
\* query, exactly the tokens whose flag is true, whatever the indicator is:
\* also when the value of the indicator is boolean (the indicator is_alpha
\* with the filter is_digit), the flag named in the filter decides, and not
\* the value of the indicator.
C28_FlagFilterDecides ==
    ( /\ Queried
      /\ args.infoType = S.Token
      /\ args.indicator \in built_in_attributes \cup token_extensions
      /\ args.filters.type = "list"
      /\ Len(args.filters.l) = 1
      /\ OneFilter[1] \in built_in_flags
      /\ OneFilter[2] = <<S.True>>
      /\ args.summaryType = V_None )
    => /\ Returned
       /\ Kept(ret.baseInfo)
            = { i \in DOMAIN doc : tokenFlag(doc, i, OneFilter[1]) }

(***************************************************************************)
(* Claims about the plural branch, under the backward scan's               *)
(* specification.                                                          *)
(***************************************************************************)
\* a plural pronoun was resolved with no override and a probability service
\* that answers every request
PluralWithService ==
    /\ Resolved
    /\ TargetIsPlural
    /\ NoOverride
    /\ args.wspc.connect
    /\ args.wspc.answers

\* C29: for a plural pronoun (they, them, their, theirs, themselves) with
\* no speaker or addressee override and a probability service that answers
\* every request, every index that ResolveReference returns is the index of
\* an animate token or the pronoun's own index; no inanimate proposed
\* antecedent is returned.
C29_OnlyAnimateOrSelf ==
    PluralWithService
    => /\ \A k \in DOMAIN ret.ret :
             ret.ret[k] = args.tok \/ doc[ret.ret[k]].animate
       /\ \A k \in DOMAIN Proposed.items :
             ~doc[Proposed.items[k]].animate
                => ~Contains(ret.ret, Proposed.items[k])

\* the service scored the inanimate placeholder at least as high, and the
\* animate items of a proposal that holds an inanimate one were returned
C29_Witness ==
    /\ PluralWithService
    /\ args.coref.present
    /\ args.wspc.res1 >= args.wspc.res2
    /\ \E k \in DOMAIN Proposed.items : ~doc[Proposed.items[k]].animate
    /\ \E k \in DOMAIN Proposed.items :
          doc[Proposed.items[k]].animate /\ ret.ret = <<Proposed.items[k]>>

(***************************************************************************)
(* getDistinctClauseReferences (lines 1386-1446).  resolve[i] is           *)
(* ResolveReference(token i, hdoc).  The specification: a parsed document  *)
(* of the resolver's specification, then one call on one of its tokens;    *)
(* the coreference service is off or answers, for each token, nothing or   *)
(* one other token; the tokens have no vwp_addressee and all the same      *)
(* vwp_speaker, nothing or one token.                                      *)
(***************************************************************************)
getDistinctClauseReferences(d, resolve, tok) ==
    LET reflexives == {
            <<"m","y","s","e","l","f">>, <<"o","u","r","s","e","l","v","e","s">>,
            <<"y","o","u","r","s","e","l","f">>,
            <<"y","o","u","r","s","e","l","v","e","s">>,
            <<"h","i","m","s","e","l","f">>, <<"h","e","r","s","e","l","f">>,
            <<"i","t","s","e","l","f">>, <<"t","h","e","m","s","e","l","f">>,
            <<"t","h","e","m","s","e","l","v","e","s">>}
        named(i, deps) ==
            d[i].dep_ \in deps /\ lower(d[i].text) \notin reflexives
        \* for reference in references: if reference not in referenceList
        RECURSIVE addNew(_, _)
        addNew(list, refs) ==
            IF refs = <<>> THEN list
            ELSE addNew(IF Contains(list, Head(refs)) THEN list
                        ELSE Append(list, Head(refs)),
                        Tail(refs))
        \* lines 1427-1433
        RECURSIVE ggrandchildren(_, _, _)
        ggrandchildren(kids, k, list) ==
            IF k > Len(kids) THEN list
            ELSE ggrandchildren(kids, k + 1,
                    IF named(kids[k], {"pobj"})
                    THEN addNew(list, resolve[kids[k]]) ELSE list)
        \* lines 1419-1433
        RECURSIVE prepChildren(_, _, _)
        prepChildren(kids, k, list) ==
            IF k > Len(kids) THEN list
            ELSE prepChildren(kids, k + 1,
                    IF named(kids[k], {"pobj"})
                    THEN addNew(list, resolve[kids[k]])
                    ELSE IF d[kids[k]].dep_ = "prep"
                    THEN ggrandchildren(children(d, kids[k]), 1, list)
                    ELSE list)
        \* lines 1439-1445
        RECURSIVE compChildren(_, _, _)
        compChildren(kids, k, list) ==
            IF k > Len(kids) THEN list
            ELSE compChildren(kids, k + 1,
                    IF named(kids[k], {"nsubj", "nsubjpass"})
                    THEN addNew(list, resolve[kids[k]]) ELSE list)
        \* lines 1408-1445
        RECURSIVE childLoop(_, _, _)
        childLoop(kids, k, list) ==
            IF k > Len(kids) THEN list
            ELSE LET child == kids[k]
                     own == IF named(child, {"nsubj", "nsubjpass", "dobj",
                                             "dative"})
                            THEN addNew(list, resolve[child]) ELSE list
                     preps == IF d[child].dep_ = "prep"
                              THEN prepChildren(children(d, child), 1, own)
                              ELSE own
                     comps == IF d[child].dep_ \in {"acomp", "ccomp", "pcomp",
                                                    "xcomp"}
                              THEN compChildren(children(d, child), 1, preps)
                              ELSE preps
                 IN  childLoop(kids, k + 1, comps)
        \* lines 1398-1407: the token's own index, then its references as
        \* they come
        start == IF named(tok, {"nsubj", "nsubjpass", "dobj", "dative"})
                 THEN <<tok>> \o resolve[tok]
                 ELSE <<>>
    IN  childLoop(children(d, tok), 1, start)

getDistinctClauseReferencesCall ==
    /\ op = "none"
    /\ \E tok \in DOMAIN doc :
       \E answers \in [DOMAIN doc -> {NoProposal}
                                     \cup {Proposal(<<j>>) : j \in DOMAIN doc}] :
       \E coref \in {NoCoref(doc), [present |-> TRUE, resolve |-> answers]} :
       \E wspc \in {w \in WordseqProbClients : w.res1 = 0 /\ w.res2 = 0} :
       \E vwp_speaker \in {NoAttr} \cup {Attr(<<j>>) : j \in DOMAIN doc} :
          LET resolve == [i \in DOMAIN doc |->
                             ResolveReference(doc, coref, wspc, i,
                                              vwp_speaker, NoAttr).ret]
          IN  /\ \A i \in DOMAIN doc : answers[i] # Proposal(<<i>>)
              /\ op' = "getDistinctClauseReferences"
              /\ args' = Environment(tok, coref, wspc, vwp_speaker, NoAttr)
              /\ ret' = [ret |-> getDistinctClauseReferences(doc, resolve, tok)]
    /\ UNCHANGED <<doc, ext>>

NextClause == getDistinctClauseReferencesCall

SpecClause == Init /\ [][NextClause]_vars

\* C30: getDistinctClauseReferences(tok, doc) returns a list that holds no
\* index twice, for every token and document; so for a subject or object
\* token whose resolution falls back to its own index.
C30_ReferencesDistinct ==
    op = "getDistinctClauseReferences"
    => \A j, k \in DOMAIN ret.ret : j # k => ret.ret[j] # ret.ret[k]

====
